---- MODULE Spec2Model ----
(***************************************************************************)
(* A model of the fastdate crate (rbatis/fastdate): DateTime, a wall-clock *)
(* reading with a UTC offset, its conversions to and from the absolute     *)
(* instant, its text form and its arithmetic.                              *)
(*                                                                         *)
(* Numbers.  TLC's integers are 32 bits wide and the crate's instants are  *)
(* i128 nanoseconds, so every wide integer is kept exactly, in mixed       *)
(* radix: <<d, s, f>> with 0 <= s < 86400 and 0 <= f < k stands for the    *)
(* integer (d * 86400 + s) * k + f, where k is the number of units per     *)
(* second (1 for seconds, 1000 for milliseconds, 10^6 for microseconds,    *)
(* 10^9 for nanoseconds).  d carries the sign.  Every integer has exactly  *)
(* one such form, so equality of forms is equality of integers.            *)
(*                                                                         *)
(* Text.  A string is the sequence of its bytes (ASCII codes), so that the *)
(* byte arithmetic of the formatter (b'0' + digit) is modelled as written. *)
(* Rust indexes from 0 and TLA+ from 1: At and Slice take Rust's indexes.  *)
(***************************************************************************)
EXTENDS Integers, Sequences, FiniteSets, TLC

VARIABLES dt, calls, panicked, GLOBAL_OFFSET, once, pc, seen, inits

vars == <<dt, calls, panicked, GLOBAL_OFFSET, once, pc, seen, inits>>

(***************************** bounds **************************************)

\* The number of calls made on the value in one run.
MaxCalls == 2

\* The number of reads of GLOBAL_OFFSET one thread makes in one run.
MaxReads == 2

(***************************** bytes ***************************************)

Ord ==
    ("0" :> 48) @@ ("1" :> 49) @@ ("2" :> 50) @@ ("3" :> 51) @@ ("4" :> 52) @@
    ("5" :> 53) @@ ("6" :> 54) @@ ("7" :> 55) @@ ("8" :> 56) @@ ("9" :> 57) @@
    (":" :> 58) @@ ("-" :> 45) @@ ("+" :> 43) @@ ("." :> 46) @@ ("," :> 44) @@
    (" " :> 32) @@ ("T" :> 84) @@ ("t" :> 116) @@ ("Z" :> 90) @@ ("z" :> 122) @@
    ("/" :> 47) @@ ("=" :> 61) @@ ("_" :> 95) @@ ("x" :> 120) @@
    ("Y" :> 89) @@ ("M" :> 77) @@ ("D" :> 68) @@ ("h" :> 104) @@ ("m" :> 109) @@
    ("s" :> 115)

\* The bytes of a string literal given as a tuple of one-character strings.
Bytes(chars) == [i \in 1..Len(chars) |-> Ord[chars[i]]]

At(v, i) == v[i + 1]

Slice(v, from, to) == SubSeq(v, from + 1, to)

ends_with(v, suffix) ==
    /\ Len(v) >= Len(suffix)
    /\ Slice(v, Len(v) - Len(suffix), Len(v)) = suffix

is_ascii_digit(c) == c >= Ord["0"] /\ c <= Ord["9"]

\* str::is_char_boundary: the start, the end, or a byte that is no UTF-8
\* continuation byte (0x80..0xBF).
is_char_boundary(v, i) ==
    \/ i = 0
    \/ i = Len(v)
    \/ i < Len(v) /\ ~(At(v, i) >= 128 /\ At(v, i) < 192)

\* format!("{:0w}", n) for n >= 0: the decimal digits of n, with zeros in
\* front up to the width w, and never cut.
RECURSIVE FmtPad(_, _)
FmtPad(n, w) ==
    IF n < 10 /\ w <= 1 THEN <<Ord["0"] + n>>
    ELSE FmtPad(n \div 10, w - 1) \o <<Ord["0"] + (n % 10)>>

(************************* wide integers ***********************************)

TruncDiv(a, b) == IF a >= 0 THEN a \div b ELSE -((-a) \div b)

TruncRem(a, b) == a - b * TruncDiv(a, b)

Abs(a) == IF a >= 0 THEN a ELSE -a

\* The form of (d * 86400 + s) * k + f for any s, f with |s|, |f| < 2^31.
TNorm(k, d, s, f) ==
    LET s1 == s + (f \div k)
    IN  <<d + (s1 \div 86400), s1 % 86400, f % k>>

TAdd(k, a, b) == TNorm(k, a[1] + b[1], a[2] + b[2], a[3] + b[3])

TSub(k, a, b) == TNorm(k, a[1] - b[1], a[2] - b[2], a[3] - b[3])

TNeg(k, a) == TSub(k, <<0, 0, 0>>, a)

TIsNeg(a) == a[1] < 0

TLess(a, b) ==
    \/ a[1] < b[1]
    \/ a[1] = b[1] /\ a[2] < b[2]
    \/ a[1] = b[1] /\ a[2] = b[2] /\ a[3] < b[3]

\* The integer a / (kFrom / kTo), rounded toward zero as Rust's `/` rounds:
\* a in units of 1/kFrom s, the result in units of 1/kTo s.
TTruncScale(kFrom, kTo, a) ==
    LET r == kFrom \div kTo
        fl == <<a[1], a[2], a[3] \div r>>
    IN  IF TIsNeg(a) /\ a[3] % r # 0 THEN TAdd(kTo, fl, <<0, 0, 1>>) ELSE fl

\* The integer a * (kTo / kFrom): Duration::from_millis and its like.
TScaleUp(kFrom, kTo, a) == <<a[1], a[2], a[3] * (kTo \div kFrom)>>

Nano == 1000000000

\* 2^64 = 18446744073709551616 ns = 213503 days 84873 s 709551616 ns.
Pow64 == <<213503, 84873, 709551616>>

\* `x as u64` for an i128 x of nanoseconds: the low 64 bits, x mod 2^64.
RECURSIVE AsU64(_)
AsU64(x) ==
    IF TIsNeg(x) THEN AsU64(TAdd(Nano, x, Pow64))
    ELSE IF TLess(x, Pow64) THEN x
    ELSE AsU64(TSub(Nano, x, Pow64))

(***************************** calendar ************************************)

\* The days of a month with a leap year every fourth year.
days_in_month_every_4(y, m) ==
    IF m \in {1, 3, 5, 7, 8, 10, 12} THEN 31
    ELSE IF m \in {4, 6, 9, 11} THEN 30
    ELSE IF y % 4 = 0 THEN 29 ELSE 28

days_in_month(y, m) ==
    IF m \in {1, 3, 5, 7, 8, 10, 12} THEN 31
    ELSE IF m \in {4, 6, 9, 11} THEN 30
    ELSE IF y % 4 = 0 /\ (y % 100 # 0 \/ y % 400 = 0) THEN 29 ELSE 28

\* Days from 1970-01-01 to y-m-d in the proleptic Gregorian calendar.
days_from_civil(y, m, d) ==
    LET y1 == IF m <= 2 THEN y - 1 ELSE y
        era == y1 \div 400
        yoe == y1 - era * 400
        mp == IF m > 2 THEN m - 3 ELSE m + 9
        doy == ((153 * mp + 2) \div 5) + d - 1
        doe == yoe * 365 + (yoe \div 4) - (yoe \div 100) + doy
    IN  era * 146097 + doe - 719468

\* The inverse: the <<year, month, day>> of a day count.
civil_from_days(z) ==
    LET z1 == z + 719468
        era == z1 \div 146097
        doe == z1 - era * 146097
        yoe == (doe - (doe \div 1460) + (doe \div 36524) - (doe \div 146096)) \div 365
        doy == doe - (365 * yoe + (yoe \div 4) - (yoe \div 100))
        mp == (5 * doy + 2) \div 153
        d == doy - ((153 * mp + 2) \div 5) + 1
        m == IF mp < 10 THEN mp + 3 ELSE mp - 9
        y == yoe + era * 400
    IN  <<IF m <= 2 THEN y + 1 ELSE y, m, d>>

(*************************** DateTime **************************************)

\* DateTime { inner: time1::OffsetDateTime }: the wall-clock fields under the
\* offset, and the offset in seconds.
MkDateTime(y, mo, d, h, mi, s, n, off) ==
    [year |-> y, mon |-> mo, day |-> d, hour |-> h, minute |-> mi, sec |-> s,
     nano |-> n, offset |-> off]

\* The wall-clock reading as nanoseconds from 1970-01-01T00:00:00 on the
\* value's own clock.
LocalT(v) ==
    <<days_from_civil(v.year, v.mon, v.day),
      v.hour * 3600 + v.minute * 60 + v.sec, v.nano>>

\* Whether a wall-clock reading in nanoseconds is one time1 can hold: the
\* years -9999 to 9999 (the crate's default, without its large-dates feature).
InRange(t) ==
    /\ t[1] >= days_from_civil(-9999, 1, 1)
    /\ t[1] <= days_from_civil(9999, 12, 31)

\* The value with wall-clock reading t (in range) and offset off.
OfLocalT(t, off) ==
    LET c == civil_from_days(t[1])
    IN  MkDateTime(c[1], c[2], c[3], t[2] \div 3600, (t[2] \div 60) % 60,
                   t[2] % 60, t[3], off)

\* What a call returns: a value, or a panic (the thread unwinds),
\* or, from a parser, an Err.
Val(v) == [v |-> v, panic |-> FALSE, ok |-> TRUE]

Err == [v |-> <<>>, panic |-> FALSE, ok |-> FALSE]

Panic == [v |-> <<>>, panic |-> TRUE, ok |-> FALSE]

\* Err(Error::E(msg)).
ErrE(msg) == [v |-> <<>>, panic |-> FALSE, ok |-> FALSE, err |-> msg]

year(self) == self.year

mon(self) == self.mon

day(self) == self.day

hour(self) == self.hour

minute(self) == self.minute

sec(self) == self.sec

nano(self) == self.nano

offset(self) == self.offset

\* OffsetDateTime::unix_timestamp_nanos: the wall clock less the offset.
unix_timestamp_nano(self) == TSub(Nano, LocalT(self), <<0, self.offset, 0>>)

\* OffsetDateTime::unix_timestamp: whole seconds, rounded down.
unix_timestamp(self) ==
    LET t == unix_timestamp_nano(self) IN <<t[1], t[2], 0>>

unix_timestamp_micros(self) == TTruncScale(Nano, 1000000, unix_timestamp_nano(self))

unix_timestamp_millis(self) == TTruncScale(Nano, 1000, unix_timestamp_nano(self))

\* 2000-03-01, in days from 1970-01-01.
LEAPOCH == 11017

\* The day of the week of the wall-clock date.
week_day_of_fields(self) ==
    LET wday == TruncRem(3 + (LocalT(self)[1] - LEAPOCH), 7)
    IN  IF wday <= 0 THEN wday + 7 ELSE wday

\* DateTime::week_day: `/` and `%` round toward zero, and a remainder of 0 or
\* less is moved up by 7.
week_day(self) ==
    LET secs_since_epoch == unix_timestamp(self)
        quot == IF secs_since_epoch[1] < 0 /\ secs_since_epoch[2] # 0
                THEN secs_since_epoch[1] + 1 ELSE secs_since_epoch[1]
        days == quot - LEAPOCH
        wday == TruncRem(3 + days, 7)
    IN  IF wday <= 0 THEN wday + 7 ELSE wday

set_offset_keep_fields(self, offset_sec) ==
    Val([self EXCEPT !.offset =
        IF offset_sec >= 86399 THEN 86399
        ELSE IF offset_sec <= -86399 THEN -86399 ELSE offset_sec])

\* set_offset: the offset is clamped, then OffsetDateTime::to_offset reads the
\* same instant on the other clock; it panics when the new reading is outside
\* the years time1 can hold.
set_offset(self, offset_sec) ==
    LET o1 == IF offset_sec >= 86399 THEN 86399 ELSE offset_sec
        o2 == IF o1 <= -86399 THEN -86399 ELSE o1
        t == TAdd(Nano, LocalT(self), <<0, o2 - self.offset, 0>>)
    IN  IF InRange(t) THEN Val(OfLocalT(t, o2)) ELSE Panic

\* OffsetDateTime + Duration and - Duration: the wall clock moves, the offset
\* stays; out of range panics.
add_moving_offset(self, d) ==
    LET t == TAdd(Nano, LocalT(self), d)
    IN  IF InRange(t) THEN Val(OfLocalT(t, 0)) ELSE Panic

add(self, d) ==
    LET t == TAdd(Nano, LocalT(self), d)
    IN  IF InRange(t) THEN Val(OfLocalT(t, self.offset)) ELSE Panic

sub(self, d) ==
    LET t == TSub(Nano, LocalT(self), d)
    IN  IF InRange(t) THEN Val(OfLocalT(t, self.offset)) ELSE Panic

\* add of the absolute value, whatever the sign.
add_sub_sec_unsigned(self, seconds) ==
    add(self, <<Abs(seconds) \div 86400, Abs(seconds) % 86400, 0>>)

\* add_sub_sec: add of sec seconds, or sub of -sec seconds when sec < 0.
add_sub_sec(self, seconds) ==
    IF seconds >= 0
    THEN add(self, <<seconds \div 86400, seconds % 86400, 0>>)
    ELSE sub(self, <<(-seconds) \div 86400, (-seconds) % 86400, 0>>)

\* set_nano(nano): unless the value has that many nanoseconds already, its
\* nanoseconds are subtracted and Duration::from_micros(nano) is added.
set_nano(self, n) ==
    LET v == nano(self)
        r == sub(self, <<0, 0, v>>)
    IN  IF n = v THEN Val(self)
        ELSE IF r.ok
        THEN add(r.v, <<0, n \div 1000000, (n % 1000000) * 1000>>)
        ELSE r

(******************** timestamps and SystemTime ****************************)

\* std::time: a SystemTime is its distance from UNIX_EPOCH in nanoseconds, a
\* Duration a non-negative number of nanoseconds.
UNIX_EPOCH == <<0, 0, 0>>

\* OffsetDateTime::from(SystemTime) and then set_offset.
from_system_time(s, offset_sec) ==
    IF InRange(s) THEN set_offset(OfLocalT(s, 0), offset_sec) ELSE Panic

\* sec: i64 seconds.
from_timestamp(x) ==
    IF ~TIsNeg(x)
    THEN from_system_time(TAdd(Nano, UNIX_EPOCH, TScaleUp(1, Nano, x)), 0)
    ELSE from_system_time(TSub(Nano, UNIX_EPOCH, TScaleUp(1, Nano, TNeg(1, x))), 0)

\* micros: i64 microseconds.
from_timestamp_micros(x) ==
    IF ~TIsNeg(x)
    THEN from_system_time(TAdd(Nano, UNIX_EPOCH, TScaleUp(1000000, Nano, x)), 0)
    ELSE from_system_time(
             TSub(Nano, UNIX_EPOCH, TScaleUp(1000000, Nano, TNeg(1000000, x))), 0)

from_timestamp_millis_adding(x) ==
    from_system_time(
        TAdd(Nano, UNIX_EPOCH,
             TScaleUp(1000, Nano, IF TIsNeg(x) THEN TNeg(1000, x) ELSE x)), 0)

\* ms: i64 milliseconds.
from_timestamp_millis(x) ==
    IF ~TIsNeg(x)
    THEN from_system_time(TAdd(Nano, UNIX_EPOCH, TScaleUp(1000, Nano, x)), 0)
    ELSE from_system_time(
             TSub(Nano, UNIX_EPOCH, TScaleUp(1000, Nano, TNeg(1000, x))), 0)

\* nano: i128 nanoseconds, cast to u64 for Duration::from_nanos.
from_timestamp_nano(x) ==
    IF ~TIsNeg(x)
    THEN from_system_time(TAdd(Nano, UNIX_EPOCH, AsU64(x)), 0)
    ELSE from_system_time(TSub(Nano, UNIX_EPOCH, AsU64(TNeg(Nano, x))), 0)

\* impl From<DateTime> for SystemTime.
into_system_time(v) ==
    LET n == unix_timestamp_nano(v)
    IN  IF ~TIsNeg(n) THEN TAdd(Nano, UNIX_EPOCH, AsU64(n))
        ELSE TSub(Nano, UNIX_EPOCH, AsU64(n))

(********************** order and difference *******************************)

\* impl Ord: unix_timestamp_nano().cmp(other.unix_timestamp_nano()).
cmp_by_fields(self, other) ==
    IF TLess(LocalT(self), LocalT(other)) THEN "Less"
    ELSE IF TLess(LocalT(other), LocalT(self)) THEN "Greater"
    ELSE "Equal"

cmp(self, other) ==
    LET a == unix_timestamp_nano(self)
        b == unix_timestamp_nano(other)
    IN  IF TLess(a, b) THEN "Less" ELSE IF TLess(b, a) THEN "Greater" ELSE "Equal"

\* before is <, after is >, by impl PartialOrd, which is cmp.
before(self, other) == cmp(self, other) = "Less"

after(self, other) == cmp(self, other) = "Greater"

\* #[derive(PartialEq)] on inner: time1 compares OffsetDateTimes as instants.
eq(self, other) == unix_timestamp_nano(self) = unix_timestamp_nano(other)

\* impl Sub<DateTime> for DateTime: the Duration of (a - b) as u64 nanoseconds.
sub_datetime(self, rhs) ==
    AsU64(TSub(Nano, unix_timestamp_nano(self), unix_timestamp_nano(rhs)))

(***************************** display *************************************)

\* buf[i] = b, and buf[i..] = bytes, with Rust's indexes.
Put(buf, i, b) == [buf EXCEPT ![i + 1] = b]

PutAll(buf, i, bytes) ==
    [j \in 1..Len(buf) |->
        IF j > i /\ j <= i + Len(bytes) THEN bytes[j - i] ELSE buf[j]]

\* The trailing zeros dropped three at a time, down to the last group of
\* three digits that is not 000.
RECURSIVE TrimZeroGroups(_, _, _, _)
TrimZeroGroups(buf, current, i, real_len) ==
    IF i < 6 /\ At(buf, current - 1 - i) = Ord["0"]
             /\ At(buf, current - 2 - i) = Ord["0"]
             /\ At(buf, current - 3 - i) = Ord["0"]
    THEN TrimZeroGroups(buf, current, i + 3, real_len - 3)
    ELSE real_len

\* The loop of Time::display_time that drops trailing '0' bytes: i counts the
\* iterations of `for i in 0..8`, and the result is real_len.
RECURSIVE TrimZeros(_, _, _, _)
TrimZeros(buf, current, i, real_len) ==
    IF i < 8 /\ At(buf, current - 1 - i) = Ord["0"]
    THEN TrimZeros(buf, current, i + 1, real_len - 1)
    ELSE real_len

\* Time::display_time(&self, start, buf) for the Time of a DateTime: the
\* buffer written and the length returned.
display_time(self, start, buf) ==
    LET n == self.nano
        digits ==
            <<Ord["0"] + (self.hour \div 10), Ord["0"] + (self.hour % 10),
              At(buf, start + 2),
              Ord["0"] + (self.minute \div 10), Ord["0"] + (self.minute % 10),
              At(buf, start + 5),
              Ord["0"] + (self.sec \div 10), Ord["0"] + (self.sec % 10),
              Ord["."],
              Ord["0"] + ((n \div 100000000) % 10),
              Ord["0"] + ((n \div 10000000) % 10),
              Ord["0"] + ((n \div 1000000) % 10),
              Ord["0"] + ((n \div 100000) % 10),
              Ord["0"] + ((n \div 10000) % 10),
              Ord["0"] + ((n \div 1000) % 10),
              Ord["0"] + ((n \div 100) % 10),
              Ord["0"] + ((n \div 10) % 10),
              Ord["0"] + (n % 10)>>
        b1 == PutAll(buf, start, digits)
        real_len == start + 1 + 8 + 8 + 1
    IN  [buf |-> b1,
         len |-> IF n = 0 THEN real_len - 10
                 ELSE TrimZeros(b1, real_len, 0, real_len)]

\* The bytes do_display writes for a non-zero offset with hours h, minutes m
\* and seconds s given as magnitudes, after the sign.
ZoneDigits(h, m, s) ==
    <<Ord["0"] + (h \div 10), Ord["0"] + (h % 10),
      Ord[":"] + (m \div 10), Ord["0"] + (m \div 10), Ord["0"] + (m % 10)>>
    \o (IF s # 0
        THEN <<Ord[":"] + (s \div 10), Ord["0"] + (s \div 10), Ord["0"] + (s % 10)>>
        ELSE <<>>)

\* DateTime::do_display(&self, buf, add_zone): the buffer written and the
\* length returned.
do_display(self, buf, add_zone) ==
    LET y == self.year
        b1 == PutAll(buf, 0,
                  <<Ord["0"] + TruncDiv(y, 1000),
                    Ord["0"] + TruncRem(TruncDiv(y, 100), 10),
                    Ord["0"] + TruncRem(TruncDiv(y, 10), 10),
                    Ord["0"] + TruncRem(y, 10)>>)
        b2 == PutAll(b1, 5, <<Ord["0"] + (self.mon \div 10), Ord["0"] + (self.mon % 10)>>)
        b3 == PutAll(b2, 8, <<Ord["0"] + (self.day \div 10), Ord["0"] + (self.day % 10)>>)
        t == display_time(self, 11, b3)
        hms == <<TruncDiv(self.offset, 3600), TruncRem(TruncDiv(self.offset, 60), 60),
                TruncRem(self.offset, 60)>>
        zone ==
            IF self.offset = 0 THEN <<Ord["Z"]>>
            ELSE IF self.offset >= 0
            THEN <<Ord["+"]>> \o ZoneDigits(hms[1], hms[2], hms[3])
            ELSE <<Ord["-"]>> \o ZoneDigits(-hms[1], -hms[2], -hms[3])
    IN  IF add_zone
        THEN [buf |-> PutAll(t.buf, t.len, zone), len |-> t.len + Len(zone)]
        ELSE t

\* DateTime::display(zone), and Display::fmt (to_string), which is display(true).
display(self, zone) ==
    LET r == do_display(self, Bytes(<<"0","0","0","0","-","0","0","-","0","0","T","0","0",":","0","0", ":","0","0",".","0","0","0","0","0","0","0","0","0","+","0","0", ":","0","0",":","0","0">>), zone) IN Slice(r.buf, 0, r.len)

to_string(self) == display(self, TRUE)

(***************************** parsing *************************************)

Digit(v, i) == At(v, i) - Ord["0"]

AllDigits(v, idxs) == \A i \in idxs : is_ascii_digit(At(v, i))

\* The number of ASCII digits of v from index i on.
RECURSIVE DigitRun(_, _)
DigitRun(v, i) ==
    IF i < Len(v) /\ is_ascii_digit(At(v, i)) THEN 1 + DigitRun(v, i + 1) ELSE 0

\* The first nine digits of a fraction of n digits at index i, as nanoseconds.
RECURSIVE FractionNanos(_, _, _, _)
FractionNanos(v, i, n, mult) ==
    IF n = 0 \/ mult = 0 THEN 0
    ELSE Digit(v, i) * mult + FractionNanos(v, i + 1, n - 1, mult \div 10)

\* time1::OffsetDateTime::parse(v, &Rfc3339): YYYY-MM-DD, T or t, hh:mm:ss,
\* an optional '.' with one or more digits, then Z, z or a sign with hh:mm;
\* nothing may follow.  The fields are range checked (a second of 60 is
\* taken as out of range here), the offset is at most 23:59.
Rfc3339_parse(v) ==
    IF Len(v) < 20 THEN Err
    ELSE IF ~(/\ AllDigits(v, {0, 1, 2, 3, 5, 6, 8, 9, 11, 12, 14, 15, 17, 18})
              /\ At(v, 4) = Ord["-"] /\ At(v, 7) = Ord["-"]
              /\ At(v, 10) \in {Ord["T"], Ord["t"]}
              /\ At(v, 13) = Ord[":"] /\ At(v, 16) = Ord[":"])
    THEN Err
    ELSE
    LET y == Digit(v, 0) * 1000 + Digit(v, 1) * 100 + Digit(v, 2) * 10 + Digit(v, 3)
        mo == Digit(v, 5) * 10 + Digit(v, 6)
        d == Digit(v, 8) * 10 + Digit(v, 9)
        h == Digit(v, 11) * 10 + Digit(v, 12)
        mi == Digit(v, 14) * 10 + Digit(v, 15)
        s == Digit(v, 17) * 10 + Digit(v, 18)
        frac == At(v, 19) = Ord["."]
        run == IF frac THEN DigitRun(v, 20) ELSE 0
        n == IF frac THEN FractionNanos(v, 20, run, 100000000) ELSE 0
        z == IF frac THEN 20 + run ELSE 19
        utc == z < Len(v) /\ At(v, z) \in {Ord["Z"], Ord["z"]}
        signed ==
            /\ z + 6 <= Len(v)
            /\ At(v, z) \in {Ord["+"], Ord["-"]}
            /\ AllDigits(v, {z + 1, z + 2, z + 4, z + 5})
            /\ At(v, z + 3) = Ord[":"]
        oh == Digit(v, z + 1) * 10 + Digit(v, z + 2)
        om == Digit(v, z + 4) * 10 + Digit(v, z + 5)
        off == IF utc THEN 0
               ELSE IF At(v, z) = Ord["-"] THEN -(oh * 3600 + om * 60)
               ELSE oh * 3600 + om * 60
    IN  IF frac /\ run = 0 THEN Err
        ELSE IF ~utc /\ ~signed THEN Err
        ELSE IF utc /\ z + 1 # Len(v) THEN Err
        ELSE IF ~utc /\ (z + 6 # Len(v) \/ oh > 23 \/ om > 59) THEN Err
        ELSE IF mo < 1 \/ mo > 12 THEN Err
        ELSE IF d < 1 \/ d > days_in_month(y, mo) THEN Err
        ELSE IF h > 23 \/ mi > 59 \/ s > 59 THEN Err
        ELSE Val(MkDateTime(y, mo, d, h, mi, s, n, off))

have_offset_one_late(v) ==
    IF ends_with(v, <<Ord["Z"]>>) THEN Len(v) - 1
    ELSE IF Len(v) >= 6 /\ At(v, Len(v) - 5) \in {Ord["+"], Ord["-"]}
    THEN Len(v) - 5
    ELSE -1

\* have_offset in from_str_default: the index of the offset token, or -1 for
\* None.  v is the text before a trailing Z is rewritten to "+00:00", whose
\* '+' then stands where the Z stood.
have_offset_of(v) ==
    IF ends_with(v, <<Ord["Z"]>>) THEN Len(v) - 1
    ELSE IF Len(v) >= 6 /\ At(v, Len(v) - 6) \in {Ord["+"], Ord["-"]}
    THEN Len(v) - 6
    ELSE -1

\* The default offset pushed with the sign of its hours alone.
DefaultZoneSignOfHours(default_offset) ==
    LET h == TruncDiv(default_offset, 3600)
        m == TruncRem(TruncDiv(default_offset, 60), 60)
    IN  (IF h >= 0 THEN <<Ord["+"]>> ELSE <<Ord["-"]>>)
        \o FmtPad(Abs(h), 2) \o <<Ord[":"]>> \o FmtPad(Abs(m), 2)

\* "+hh:mm" or "-hh:mm" for the default offset, as from_str_default pushes it.
DefaultZone(default_offset) ==
    LET h == TruncDiv(default_offset, 3600)
        m == TruncRem(TruncDiv(default_offset, 60), 60)
    IN  (IF h >= 0 /\ m >= 0 THEN <<Ord["+"]>> ELSE <<Ord["-"]>>)
        \o FmtPad(Abs(h), 2) \o <<Ord[":"]>> \o FmtPad(Abs(m), 2)

\* DateTime::from_str_default(arg, default_offset).
from_str_default(arg, default_offset) ==
    LET v1 == IF Len(arg) = 10
              THEN arg \o Bytes(<<"T","0","0",":","0","0",":","0","0",".","0","0">>)
              ELSE arg
        bad10 == Len(v1) > 10
                 /\ ~(is_char_boundary(v1, 10) /\ is_char_boundary(v1, 11))
        v2 == IF Len(v1) > 10 /\ At(v1, 10) # Ord["T"]
              THEN Put(v1, 10, Ord["T"]) ELSE v1
        isZ == ends_with(v2, <<Ord["Z"]>>)
        v3 == IF isZ
              THEN Slice(v2, 0, Len(v2) - 1) \o Bytes(<<"+","0","0",":","0","0">>)
              ELSE v2
        badIdx == ~isZ /\ Len(v3) >= 6
                  /\ ~(is_char_boundary(v3, Len(v3) - 6)
                       /\ is_char_boundary(v3, Len(v3) - 5))
        have == have_offset_of(v2)
        badSp == have >= 1 /\ ~is_char_boundary(v3, have - 1)
        v4 == IF have >= 1 /\ At(v3, have - 1) = Ord[" "]
              THEN Slice(v3, 0, have - 1) \o Slice(v3, have, Len(v3)) ELSE v3
        badDef == have = -1 /\ (default_offset > 86399 \/ default_offset < -86399)
        v5 == IF have = -1 THEN v4 \o DefaultZone(default_offset) ELSE v4
    IN  IF bad10 THEN Panic
        ELSE IF badIdx THEN Panic
        ELSE IF badSp THEN Panic
        ELSE IF badDef THEN Panic
        ELSE Rfc3339_parse(v5)

\* offset_sec(): the host's offset, as GLOBAL_OFFSET caches it.
offset_sec == GLOBAL_OFFSET

\* impl FromStr for DateTime.
from_str(arg, global_offset) == from_str_default(arg, global_offset)

(*************************** custom parse **********************************)

\* str::find: the byte index of the first occurrence of pat in s, -1 for None.
RECURSIVE FindFrom(_, _, _)
FindFrom(s, pat, i) ==
    IF i + Len(pat) > Len(s) THEN -1
    ELSE IF Slice(s, i, i + Len(pat)) = pat THEN i
    ELSE FindFrom(s, pat, i + 1)

find(s, pat) == FindFrom(s, pat, 0)

\* The tokens of a format.
TokenBytes(p) ==
    CASE p = "YYYY" -> Bytes(<<"Y","Y","Y","Y">>)
      [] p = "MM" -> Bytes(<<"M","M">>)
      [] p = "DD" -> Bytes(<<"D","D">>)
      [] p = "hh" -> Bytes(<<"h","h">>)
      [] p = "mm" -> Bytes(<<"m","m">>)
      [] p = "ss" -> Bytes(<<"s","s">>)
      [] p = ".000000" -> Bytes(<<".","0","0","0","0","0","0">>)
      [] p = ".000000000" -> Bytes(<<".","0","0","0","0","0","0","0","0","0">>)
      [] p = "+00:00" -> Bytes(<<"+","0","0",":","0","0">>)
      [] OTHER -> <<Ord[p]>>

\* The bytes of the token taken from where the token stands in the RFC 3339
\* buffer, not from where it stands in the format.
CopyTokenAtBuffer(st, format, token, at, n, bytes) ==
    IF st.err # "" \/ find(format, TokenBytes(token)) = -1 THEN st
    ELSE IF at + n > Len(bytes) THEN [st EXCEPT !.err = token]
    ELSE [st EXCEPT !.buf = PutAll(st.buf, at, Slice(bytes, at, at + n))]

\* A block that leaves the buffer as it is when the input ends before the
\* token's bytes.
CopyTokenLenient(st, format, token, at, n, bytes) ==
    LET pos == find(format, TokenBytes(token))
    IN  IF st.err # "" \/ pos = -1 \/ pos + n > Len(bytes) THEN st
        ELSE [st EXCEPT !.buf = PutAll(st.buf, at, Slice(bytes, pos, pos + n))]

\* One `if let Some(pos) = format.find(token)` block of DateTime::parse: the
\* n bytes of the input at pos go to the buffer at `at`; an input that ends
\* before them is the error "warn 'token'".
CopyToken(st, format, token, at, n, bytes) ==
    LET pos == find(format, TokenBytes(token))
    IN  IF st.err # "" \/ pos = -1 THEN st
        ELSE IF pos + n > Len(bytes) THEN [st EXCEPT !.err = token]
        ELSE [st EXCEPT !.buf = PutAll(st.buf, at, Slice(bytes, pos, pos + n))]

\* The local offset as DateTime::parse writes it: the sign of offset_sec,
\* the hours and the minutes.
ParseLocalZone(local) ==
    LET h == TruncDiv(local, 3600)
        m == TruncRem(TruncDiv(local, 60), 60)
    IN  <<IF local >= 0 THEN Ord["+"] ELSE Ord["-"],
          Ord["0"] + (Abs(h) \div 10), Ord["0"] + (Abs(h) % 10), Ord[":"],
          Ord["0"] + (Abs(m) \div 10), Ord["0"] + (Abs(m) % 10)>>

\* The blocks of DateTime::parse from the i-th on, in the order of the code:
\* the six date and time tokens, the fraction (nine digits before six), Z,
\* "+00:00" and, for a format with neither, the local offset.  st holds the
\* 35-byte buffer, the running len, the token of the error and whether a
\* write went past the end of the buffer (a panic).
RECURSIVE ParseFrom(_, _, _, _, _)
ParseFrom(st, i, format, arg, local) ==
    LET find_nano == find(format, TokenBytes(".000000000")) # -1
        find_micro == find(format, TokenBytes(".000000")) # -1
        hasZ == find(format, <<Ord["Z"]>>) # -1
        zone == find(format, TokenBytes("+00:00"))
        have_offset == hasZ \/ zone # -1
        next ==
            CASE i = 1 -> CopyToken(st, format, "YYYY", 0, 4, arg)
              [] i = 2 -> CopyToken(st, format, "MM", 5, 2, arg)
              [] i = 3 -> CopyToken(st, format, "DD", 8, 2, arg)
              [] i = 4 -> CopyToken(st, format, "hh", 11, 2, arg)
              [] i = 5 -> CopyToken(st, format, "mm", 14, 2, arg)
              [] i = 6 -> CopyToken(st, format, "ss", 17, 2, arg)
              [] i = 7 ->
                  IF find_nano
                  THEN [CopyToken(st, format, ".000000000", 19, 10, arg)
                            EXCEPT !.len = 29]
                  ELSE IF find_micro
                  THEN [CopyToken(st, format, ".000000", 19, 7, arg) EXCEPT !.len = 26]
                  ELSE st
              [] i = 8 ->
                  IF hasZ /\ st.err = ""
                  THEN [st EXCEPT !.buf = Put(st.buf, st.len, Ord["Z"]),
                                  !.len = st.len + 1]
                  ELSE st
              [] i = 9 ->
                  IF zone = -1 \/ st.err # "" THEN st
                  ELSE IF zone + 6 > Len(arg) THEN [st EXCEPT !.err = "+00:00"]
                  ELSE IF st.len + 6 > 35 THEN [st EXCEPT !.panic = TRUE]
                  ELSE [CopyToken(st, format, "+00:00", st.len, 6, arg)
                            EXCEPT !.len = st.len + 6]
              [] OTHER ->
                  IF have_offset \/ st.err # "" THEN st
                  ELSE IF local > 86399 \/ local < -86399 THEN [st EXCEPT !.panic = TRUE]
                  ELSE [st EXCEPT !.buf = PutAll(st.buf, st.len, ParseLocalZone(local)),
                                  !.len = st.len + 6]
    IN  IF i > 10 THEN st ELSE ParseFrom(next, i + 1, format, arg, local)

\* DateTime::parse(format, arg), with the local offset offset_sec() gives.
\* The buffer has 35 bytes: a format with nine fraction digits, a Z and a
\* "+00:00" writes past its end, which panics.
parse(format, arg, local) ==
    LET st == ParseFrom([panic |-> FALSE, err |-> "",
                         buf |-> Bytes(<<"0","0","0","0","-","0","0","-","0","0","T",
                                         "0","0",":","0","0",":","0","0",".","0","0",
                                         "0","0","0","0","0","0","0","+","0","0",":",
                                         "0","0">>),
                         len |-> 19],
                        1, format, arg, local)
    IN  IF st.panic THEN Panic
        ELSE IF st.err # "" THEN ErrE(st.err)
        ELSE Rfc3339_parse(Slice(st.buf, 0, st.len))

(******************************* Date **************************************)

\* struct Date { day, mon, year }.
MkDate(y, m, d) == [year |-> y, mon |-> m, day |-> d]

\* Date::parse_bytes_partial: bytes 4 and 7 are not looked at, nor are the
\* bytes after the tenth.
Date_parse_bytes_partial(bytes) ==
    IF Len(bytes) < 10 THEN ErrE("TooShort")
    ELSE IF ~AllDigits(bytes, {0, 1, 2, 3}) THEN ErrE("InvalidCharYear")
    ELSE IF ~AllDigits(bytes, {5, 6}) THEN ErrE("InvalidCharMonth")
    ELSE IF ~AllDigits(bytes, {8, 9}) THEN ErrE("InvalidCharDay")
    ELSE
    LET y == Digit(bytes, 0) * 1000 + Digit(bytes, 1) * 100
               + Digit(bytes, 2) * 10 + Digit(bytes, 3)
        month == Digit(bytes, 5) * 10 + Digit(bytes, 6)
        d == Digit(bytes, 8) * 10 + Digit(bytes, 9)
    IN  IF month < 1 \/ month > 12 THEN ErrE("OutOfRangeMonth")
        ELSE IF d < 1 \/ d > days_in_month(y, month) THEN ErrE("OutOfRangeDay")
        ELSE Val(MkDate(y, month, d))

\* The indexes Date::parse_bytes_partial reads with get_unchecked and
\* get_digit_unchecked!: none when the slice is too short, and after that
\* 0 to 9 in turn, up to the first digit position that holds no digit.
Date_unchecked(bytes) ==
    IF Len(bytes) < 10 THEN {}
    ELSE { i \in 0..9 :
             \A j \in {0, 1, 2, 3, 5, 6, 8, 9} : j < i => is_ascii_digit(At(bytes, j)) }

\* impl FromStr for Date.
Date_from_str(s) == Date_parse_bytes_partial(s)

set_day(self, arg) == [self EXCEPT !.day = arg]

set_mon(self, arg) == [self EXCEPT !.mon = arg]

set_year(self, arg) == [self EXCEPT !.year = arg]

(******************************* Time **************************************)

\* struct Time { nano, sec, min, hour }; the field min is written minute, as
\* in the record of a DateTime, whose Time display_time also renders.
MkTime(h, mi, s, n) == [hour |-> h, minute |-> mi, sec |-> s, nano |-> n]

\* The digits of the fraction read as a whole number, not padded.
Time_nano_unpadded(bytes, from, n) ==
    IF n = 0 THEN 0
    ELSE FractionNanos(bytes, from, n, 100000000) \div
             (CASE n = 1 -> 100000000 [] n = 2 -> 10000000 [] n = 3 -> 1000000
                [] n = 4 -> 100000 [] n = 5 -> 10000 [] n = 6 -> 1000
                [] n = 7 -> 100 [] n = 8 -> 10 [] OTHER -> 1)

\* The nano of number_buf: its i-th digit counts 10^(8-i).
Time_nano(bytes, from, n) == FractionNanos(bytes, from, n, 100000000)

\* Time::parse_bytes_partial(bytes, offset): the Time (the length it also
\* returns is left out).  Bytes offset+2 and offset+5 are not looked at.
Time_parse_bytes_partial(bytes, off) ==
    IF Len(bytes) < off THEN Val(MkTime(0, 0, 0, 0))
    ELSE IF Len(bytes) - off < 5 THEN ErrE("TooShort")
    ELSE IF ~AllDigits(bytes, {off, off + 1}) THEN ErrE("InvalidCharHour")
    ELSE IF ~AllDigits(bytes, {off + 3, off + 4}) THEN ErrE("InvalidCharMinute")
    ELSE
    LET h == Digit(bytes, off) * 10 + Digit(bytes, off + 1)
        mi == Digit(bytes, off + 3) * 10 + Digit(bytes, off + 4)
        hasSec == Len(bytes) > off + 7 /\ AllDigits(bytes, {off + 6, off + 7})
        second == Digit(bytes, off + 6) * 10 + Digit(bytes, off + 7)
        frac_sep == Len(bytes) > off + 8
                    /\ At(bytes, off + 8) \in {Ord["."], Ord[","]}
        i == IF frac_sep THEN DigitRun(bytes, off + 9) ELSE 0
    IN  IF h > 23 THEN ErrE("OutOfRangeHour")
        ELSE IF mi > 59 THEN ErrE("OutOfRangeMinute")
        ELSE IF ~hasSec THEN ErrE("InvalidCharSecond")
        ELSE IF second > 59 THEN ErrE("OutOfRangeSecond")
        ELSE IF frac_sep /\ i > 9 THEN ErrE("SecondFractionTooLong")
        ELSE IF frac_sep /\ i = 0 THEN ErrE("SecondFractionMissing")
        ELSE Val(MkTime(h, mi, second, Time_nano(bytes, off + 9, i)))

\* The same with a length test that lets a slice of four bytes through.
Time_unchecked_four(bytes, off) ==
    IF Len(bytes) < off THEN {}
    ELSE IF Len(bytes) - off < 4 THEN {}
    ELSE { off + i : i \in { k \in 0..4 :
             \A j \in {0, 1, 3} : j < k => is_ascii_digit(At(bytes, off + j)) } }

\* The indexes Time::parse_bytes_partial reads with get_unchecked and
\* get_digit_unchecked!: none when the slice ends before offset or less than
\* five bytes after it, and after that offset to offset + 4 in turn, up to
\* the first digit position that holds no digit.  The seconds and the
\* fraction are read with get, which checks.
Time_unchecked(bytes, off) ==
    IF Len(bytes) < off THEN {}
    ELSE IF Len(bytes) - off < 5 THEN {}
    ELSE { off + i : i \in { k \in 0..4 :
             \A j \in {0, 1, 3} : j < k => is_ascii_digit(At(bytes, off + j)) } }

\* Time::from_str that reads no fraction.
Time_from_str_no_fraction(s) ==
    LET r == Time_parse_bytes_partial(s, 0)
    IN  IF r.ok THEN Val([r.v EXCEPT !.nano = 0]) ELSE r

\* impl FromStr for Time.
Time_from_str(s) == Time_parse_bytes_partial(s, 0)

\* impl Display for Time (to_string).
Time_to_string(self) ==
    LET r == display_time(self, 0,
                 Bytes(<<"0","0",":","0","0",":","0","0",".","0","0","0","0","0",
                         "0","0","0","0">>))
    IN  Slice(r.buf, 0, r.len)

(*************************** custom format *********************************)

\* DateTime::format(fmt), from the byte at index on, with the result so far
\* (0 and the empty String at the call): the bytes are pushed one by one, each as the
\* char of that code (two bytes in the String for a byte above 127), and
\* whenever the result ends with a token the token is popped and the field
\* written; ".000000" waits when three more zeros follow in fmt.  No two of
\* the tokens can end the result at once, so the tests are a CASE.
RECURSIVE format(_, _, _, _)
format(self, fmt, index, result) ==
    LET c == At(fmt, index)
        r == result \o (IF c < 128 THEN <<c>> ELSE <<192 + (c \div 64), 128 + (c % 64)>>)
        h == TruncDiv(offset(self), 3600)
        m == TruncRem(TruncDiv(offset(self), 60), 60)
        add_sub == IF offset(self) >= 0 THEN Ord["+"] ELSE Ord["-"]
        Ends(p) == ends_with(r, TokenBytes(p))
        Pop(p) == Slice(r, 0, Len(r) - Len(TokenBytes(p)))
        Go(next) == format(self, fmt, index + 1, next)
    IN  CASE index >= Len(fmt) -> result
          [] index < Len(fmt) /\ Ends(".000000000") ->
                Go(Pop(".000000000") \o <<Ord["."]>> \o FmtPad(nano(self), 9))
          [] index < Len(fmt) /\ Ends(".000000") ->
                IF /\ index + 3 < Len(fmt)
                   /\ At(fmt, index + 1) = Ord["0"]
                   /\ At(fmt, index + 2) = Ord["0"]
                   /\ At(fmt, index + 3) = Ord["0"]
                THEN Go(r)
                ELSE Go(Pop(".000000") \o <<Ord["."]>> \o FmtPad(nano(self) \div 1000, 6))
          [] index < Len(fmt) /\ Ends("+00:00") ->
                Go(Pop("+00:00") \o <<add_sub>> \o FmtPad(Abs(h), 2) \o <<Ord[":"]>>
                   \o FmtPad(Abs(m), 2))
          [] index < Len(fmt) /\ Ends("YYYY") -> Go(Pop("YYYY") \o FmtPad(year(self), 4))
          [] index < Len(fmt) /\ Ends("MM") -> Go(Pop("MM") \o FmtPad(mon(self), 2))
          [] index < Len(fmt) /\ Ends("DD") -> Go(Pop("DD") \o FmtPad(day(self), 2))
          [] index < Len(fmt) /\ Ends("hh") -> Go(Pop("hh") \o FmtPad(hour(self), 2))
          [] index < Len(fmt) /\ Ends("mm") -> Go(Pop("mm") \o FmtPad(minute(self), 2))
          [] index < Len(fmt) /\ Ends("ss") -> Go(Pop("ss") \o FmtPad(sec(self), 2))
          [] OTHER -> Go(r)

(********************** composition and projection *************************)

\* impl From<(Date, Time)> for DateTime: the fields are written as a text in
\* UTC, the text is parsed and the result unwrapped.
from_date_time(d, t, global_offset) ==
    LET text == FmtPad(d.year, 4) \o Bytes(<<"-">>) \o FmtPad(d.mon, 2)
                \o Bytes(<<"-">>) \o FmtPad(d.day, 2) \o Bytes(<<" ">>)
                \o FmtPad(t.hour, 2) \o Bytes(<<":">>) \o FmtPad(t.minute, 2)
                \o Bytes(<<":">>) \o FmtPad(t.sec, 2) \o Bytes(<<".">>)
                \o FmtPad(t.nano, 9) \o Bytes(<<"Z">>)
        r == from_str(text, global_offset)
    IN  IF r.ok THEN r ELSE Panic

\* impl From<(Date, Time, i32)> for DateTime: the same, then set_offset and
\* add_sub_sec of the offset negated; a panic ends the chain.
from_date_time_offset(d, t, o, global_offset) ==
    LET r1 == from_date_time(d, t, global_offset)
        r2 == IF r1.ok THEN set_offset(r1.v, o) ELSE r1
    IN  IF r2.ok THEN add_sub_sec(r2.v, -o) ELSE r2

\* impl From<(Date, i32)> for DateTime, on impl From<Date> for DateTime:
\* midnight of the date in UTC, then the same chain.
from_date_offset(d, o, global_offset) ==
    LET text == FmtPad(d.year, 4) \o Bytes(<<"-">>) \o FmtPad(d.mon, 2)
                \o Bytes(<<"-">>) \o FmtPad(d.day, 2)
                \o Bytes(<<" ", "0", "0", ":", "0", "0", ":", "0", "0", ".",
                          "0", "0", "0", "0", "0", "0", "0", "0", "0", "Z">>)
        r0 == from_str(text, global_offset)
        r1 == IF r0.ok THEN r0 ELSE Panic
        r2 == IF r1.ok THEN set_offset(r1.v, o) ELSE r1
    IN  IF r2.ok THEN add_sub_sec(r2.v, -o) ELSE r2

\* The Date of the instant read in UTC.
Date_from_utc(arg) ==
    LET u == OfLocalT(unix_timestamp_nano(arg), 0)
    IN  MkDate(u.year, u.mon, u.day)

\* impl From<DateTime> for Date.
Date_from(arg) == MkDate(arg.year, arg.mon, arg.day)

\* impl From<DateTime> for Time.
Time_from(arg) == MkTime(arg.hour, arg.minute, arg.sec, arg.nano)

(*************************** the inputs ************************************)

\* The host's local offset, read once into GLOBAL_OFFSET.
LocalOffsets == {0, 28800}

\* Durations in nanoseconds.
Durations ==
    { <<0, 0, 1>>, <<0, 86399, 999999999>>, <<1, 0, 0>>, <<219146, 3600, 5>> }

\* A text as written by hand: the fields, the fraction digits, the separator
\* between date and time, and the offset token ("Z", or a sign with hh:mm),
\* with or without one space before it.
W(y, mo, d, h, mi, s, fr, sp, space, sign, oh, om) ==
    [year |-> y, mon |-> mo, day |-> d, hour |-> h, minute |-> mi, sec |-> s, frac |-> fr,
     oh |-> oh, om |-> om, space |-> space, sign |-> sign, sep |-> sp]

DigitBytes(ds) == [i \in 1..Len(ds) |-> Ord["0"] + ds[i]]

\* The bytes of a written text.
WrittenBytes(w) ==
    DigitBytes(<<(w.year \div 1000) % 10, (w.year \div 100) % 10,
                 (w.year \div 10) % 10, w.year % 10>>)
    \o <<Ord["-"]>> \o FmtPad(w.mon, 2) \o <<Ord["-"]>> \o FmtPad(w.day, 2)
    \o <<Ord[w.sep]>>
    \o FmtPad(w.hour, 2) \o <<Ord[":"]>> \o FmtPad(w.minute, 2) \o <<Ord[":"]>> \o FmtPad(w.sec, 2)
    \o (IF w.frac = <<>> THEN <<>> ELSE <<Ord["."]>> \o DigitBytes(w.frac))
    \o (IF w.space THEN <<Ord[" "]>> ELSE <<>>)
    \o (IF w.sign = "Z" THEN <<Ord["Z"]>>
        ELSE <<Ord[w.sign]>> \o FmtPad(w.oh, 2) \o <<Ord[":"]>> \o FmtPad(w.om, 2))

\* Texts with no offset token: a date and a time with or without a fraction,
\* or a date alone (dateonly), which reads as midnight.
P(y, mo, d, h, mi, s, fr, sp, dateonly) ==
    [year |-> y, mon |-> mo, day |-> d, hour |-> h, minute |-> mi, sec |-> s,
     frac |-> fr, sep |-> sp, dateonly |-> dateonly]

PlainTexts ==
    { P(2022, 12, 12, 0, 0, 0, <<>>, "T", FALSE),
      P(2022, 12, 12, 23, 59, 59, <<1, 2, 3>>, " ", FALSE),
      P(2024, 2, 29, 9, 3, 48, <<0, 0, 0, 0, 0, 0, 0, 0, 1>>, "T", FALSE),
      P(2022, 12, 12, 0, 0, 0, <<>>, "T", TRUE) }

PlainBytes(w) ==
    DigitBytes(<<(w.year \div 1000) % 10, (w.year \div 100) % 10,
                 (w.year \div 10) % 10, w.year % 10>>)
    \o <<Ord["-"]>> \o FmtPad(w.mon, 2) \o <<Ord["-"]>> \o FmtPad(w.day, 2)
    \o (IF w.dateonly THEN <<>>
        ELSE <<Ord[w.sep]>> \o FmtPad(w.hour, 2) \o <<Ord[":"]>> \o FmtPad(w.minute, 2)
             \o <<Ord[":"]>> \o FmtPad(w.sec, 2)
             \o (IF w.frac = <<>> THEN <<>> ELSE <<Ord["."]>> \o DigitBytes(w.frac)))

\* Texts whose offset is a sign and two hour digits, with no minutes, as in
\* "2024-07-26 09:03:48+00".
H(y, mo, d, h, mi, s, fr, sp, sign, oh) ==
    [year |-> y, mon |-> mo, day |-> d, hour |-> h, minute |-> mi, sec |-> s, frac |-> fr,
     oh |-> oh, sign |-> sign, sep |-> sp, dateonly |-> FALSE]


\* Texts for Date::from_str with digits where the year, the month and the
\* day stand: the fields, the byte at 4 and 7, and what follows the day.
DateTexts ==
    [year : {1900, 2000, 2023, 2024}, sep : {"-"},
     md : { <<1, 1>>, <<1, 31>>, <<1, 32>>, <<2, 28>>, <<2, 29>>, <<2, 30>>,
            <<4, 30>>, <<4, 31>>, <<12, 31>>, <<12, 0>>, <<0, 1>>, <<13, 1>>,
            <<14, 40>>, <<0, 0>>, <<99, 99>> },
     tail : {<<>>}]
    \cup [year : {2024}, sep : {"/", "0"}, md : {<<2, 29>>, <<2, 30>>, <<13, 1>>},
          tail : {<<>>, <<Ord["T"], Ord["9"]>>}]

DateBytes(w) ==
    DigitBytes(<<(w.year \div 1000) % 10, (w.year \div 100) % 10,
                 (w.year \div 10) % 10, w.year % 10>>)
    \o <<Ord[w.sep]>> \o FmtPad(w.md[1], 2) \o <<Ord[w.sep]>> \o FmtPad(w.md[2], 2) \o w.tail

\* Texts for Time::from_str: hh:mm:ss with fields in range, then nothing, or
\* a separator and the digits of a fraction, then a tail.
TT(h, mi, s, sep, fr, tail) ==
    [hour |-> h, minute |-> mi, sec |-> s, frac |-> fr, sep |-> sep, tail |-> tail]

TimeBytes(w) ==
    FmtPad(w.hour, 2) \o <<Ord[":"]>> \o FmtPad(w.minute, 2) \o <<Ord[":"]>> \o FmtPad(w.sec, 2)
    \o (IF w.sep = "" THEN <<>> ELSE <<Ord[w.sep]>>) \o DigitBytes(w.frac) \o w.tail

\* Formats for DateTime::parse, as the sequence of their tokens and of the
\* bytes between them.
Formats ==
    { <<"YYYY","-","MM","-","DD"," ","hh",":","mm",":","ss",".000000","Z">>,
      <<"YYYY","-","MM","-","DD"," ","hh",":","mm",":","ss",".000000000","+00:00">>,
      <<"YYYY","-","MM","-","DD"," ","hh",":","mm",":","ss",".000000">>,
      <<"hh",":","mm",":","ss",".000000","+00:00",",","YYYY","-","MM","-","DD">>,
      <<"Z","ss","mm","hh","DD","MM","YYYY">>,
      <<"DD","/","MM","/","YYYY"," ","hh",":","mm">> }

RECURSIVE Concat(_)
Concat(ss) == IF ss = <<>> THEN <<>> ELSE Head(ss) \o Concat(Tail(ss))

FormatBytes(parts) == Concat([i \in 1..Len(parts) |-> TokenBytes(parts[i])])

\* What an input is written from: the fields, nine fraction digits, the
\* offset, the byte written between the fields and the byte written where
\* the format has its Z.
CW(y, mo, d, h, mi, s, fr, sign, oh, om, sep, z) ==
    [z |-> z, year |-> y, mon |-> mo, day |-> d, hour |-> h, minute |-> mi, sec |-> s,
     frac |-> fr, oh |-> oh, om |-> om, sign |-> sign, sep |-> sep]

\* The input written after a format: each token gives way to its field, each
\* other byte to the value's own separator.
InputPart(p, w) ==
    CASE p = "YYYY" -> DigitBytes(<<(w.year \div 1000) % 10, (w.year \div 100) % 10,
                                    (w.year \div 10) % 10, w.year % 10>>)
      [] p = "MM" -> FmtPad(w.mon, 2)
      [] p = "DD" -> FmtPad(w.day, 2)
      [] p = "hh" -> FmtPad(w.hour, 2)
      [] p = "mm" -> FmtPad(w.minute, 2)
      [] p = "ss" -> FmtPad(w.sec, 2)
      [] p = ".000000" -> <<Ord["."]>> \o DigitBytes(SubSeq(w.frac, 1, 6))
      [] p = ".000000000" -> <<Ord["."]>> \o DigitBytes(w.frac)
      [] p = "+00:00" -> <<Ord[w.sign]>> \o FmtPad(w.oh, 2) \o <<Ord[":"]>> \o FmtPad(w.om, 2)
      [] p = "Z" -> <<Ord[w.z]>>
      [] OTHER -> <<Ord[w.sep]>>

InputBytes(parts, w) == Concat([i \in 1..Len(parts) |-> InputPart(parts[i], w)])

(**************************** the calls ************************************)

\* The threads that read GLOBAL_OFFSET.
Threads == {1, 2, 3}

LastCall == calls[Len(calls)]

PrevCall == calls[Len(calls) - 1]

CanCall == ~panicked /\ Len(calls) < MaxCalls

\* A call that consumes the value and returns a DateTime (or panics, or
\* returns an Err): the value is replaced when there is one.
Returns(op, arg, r) ==
    /\ CanCall
    /\ calls' = Append(calls, [self |-> dt, arg |-> arg, op |-> op, out |-> r])
    /\ panicked' = r.panic
    /\ dt' = IF r.ok THEN r.v ELSE dt
    /\ UNCHANGED <<GLOBAL_OFFSET, once, pc, seen, inits>>

\* A call on &self that returns something else: the value stays.
Reads(op, arg, r) ==
    /\ CanCall
    /\ calls' = Append(calls, [self |-> dt, arg |-> arg, op |-> op, out |-> r])
    /\ UNCHANGED <<dt, panicked, GLOBAL_OFFSET, once, pc, seen, inits>>

\* The outputs of the last call, when it was `op`: what a caller can pass on.
LastOut(op) ==
    IF calls # <<>> /\ LastCall.op = op THEN {LastCall.out} ELSE {}

\* set_offset on an i32 inside and outside the clamp.
SetOffset ==
    \E o \in {0, 1, -1, 19800, 28800, -28800, 86399, -86400, 90000} :
        Returns("set_offset", o, set_offset(dt, o))

Add == \E d \in Durations : Returns("add", d, add(dt, d))

Sub == \E d \in Durations : Returns("sub", d, sub(dt, d))

UnixTimestamp == Reads("unix_timestamp", <<>>, unix_timestamp(dt))

UnixTimestampMillis == Reads("unix_timestamp_millis", <<>>, unix_timestamp_millis(dt))

UnixTimestampMicros == Reads("unix_timestamp_micros", <<>>, unix_timestamp_micros(dt))

UnixTimestampNano == Reads("unix_timestamp_nano", <<>>, unix_timestamp_nano(dt))

\* from_timestamp (seconds), _millis, _micros and _nano, on an argument of
\* its own or on what the matching unix_timestamp* returned.  -4383 days is
\* -378691200 s (1958-01-01), -8198 days 57600 s is -708249600000 ms
\* (1947-07-23T16:00:00), -719162 days is 0001-01-01 and 2932896 days is
\* 9999-12-31.
FromTimestamp ==
    \E x \in { <<-4383, 0, 0>>, <<19000, 1, 0>>, <<-719162, 0, 0>>,
               <<2932896, 86399, 0>> } \cup LastOut("unix_timestamp") :
        Returns("from_timestamp", x, from_timestamp(x))

FromTimestampMillis ==
    \E x \in { <<-8198, 57600, 0>>, <<19000, 1, 1>>, <<-719162, 0, 1>>,
               <<2932896, 86399, 999>> } \cup LastOut("unix_timestamp_millis") :
        Returns("from_timestamp_millis", x, from_timestamp_millis(x))

FromTimestampMicros ==
    \E x \in { <<-1, 86399, 999999>>, <<-719162, 0, 1>>,
               <<2932896, 86399, 999999>> } \cup LastOut("unix_timestamp_micros") :
        Returns("from_timestamp_micros", x, from_timestamp_micros(x))

FromTimestampNano ==
    \E x \in { <<-1, 86399, 999999999>>, <<19000, 1, 1>>, <<230000, 0, 5>>,
               <<-719162, 0, 1>> } \cup LastOut("unix_timestamp_nano") :
        Returns("from_timestamp_nano", x, from_timestamp_nano(x))

\* impl From<SystemTime> for DateTime, on a SystemTime given as nanoseconds
\* from UNIX_EPOCH.
FromSystemTime ==
    \E x \in { <<0, 0, 0>>, <<19000, 1, 1>>, <<-1, 86399, 0>>,
               <<-4383, 0, 0>> } \cup LastOut("into_system_time") :
        Returns("from_system_time", x, from_system_time(x, 0))

IntoSystemTime == Reads("into_system_time", <<>>, into_system_time(dt))

\* The other operand of a comparison or a difference: a value of its own,
\* or the value this run started from.
Others ==
    { MkDateTime(2022, 12, 12, 0, 0, 0, 0, 28800),
      MkDateTime(2022, 12, 11, 16, 0, 0, 0, 0),
      MkDateTime(2022, 12, 12, 0, 0, 0, 0, 0) }
    \cup (IF calls # <<>> THEN {calls[1].self} ELSE {})

Cmp == \E b \in Others : Reads("cmp", b, cmp(dt, b))

Eq == \E b \in Others : Reads("eq", b, eq(dt, b))

Before == \E b \in Others : Reads("before", b, before(dt, b))

After == \E b \in Others : Reads("after", b, after(dt, b))

SubDateTime == \E b \in Others : Reads("sub_datetime", b, sub_datetime(dt, b))

\* impl Display for DateTime: fmt, which to_string calls.
DisplayFmt == Reads("to_string", <<>>, to_string(dt))

\* from_str on a text written by hand, on a text that is no date-time
\* ("2022", "", a date alone, a date-time with no offset token), or on the
\* text the last to_string returned.
FromStr ==
    \/ \E w \in { W(2022, 12, 12, 0, 0, 0, <<0, 0, 0, 0, 0, 0>>, " ", FALSE, "Z", 0, 0),
                  W(2022, 12, 12, 0, 0, 0, <<1, 2, 3, 4, 5, 6, 7, 8, 9>>, " ", FALSE, "Z", 0, 0),
                  W(2022, 12, 12, 0, 0, 0, <<0, 0, 0, 0, 0, 0>>, " ", FALSE, "+", 9, 0),
                  W(2022, 12, 12, 0, 0, 0, <<0, 0, 0, 0, 0, 0>>, " ", FALSE, "-", 9, 0),
                  W(2022, 12, 12, 0, 0, 0, <<>>, "T", TRUE, "+", 8, 0),
                  W(2022, 12, 12, 0, 0, 0, <<>>, "T", FALSE, "-", 8, 0),
                  W(2023, 10, 13, 16, 57, 41, <<1, 2, 3, 9, 2, 6>>, " ", FALSE, "+", 5, 30),
                  W(2024, 2, 29, 23, 59, 59, <<5>>, "T", TRUE, "Z", 0, 0),
                  W(1, 1, 1, 0, 0, 0, <<>>, "t", FALSE, "-", 23, 59),
                  W(9999, 12, 31, 23, 59, 59, <<9, 9, 9, 9, 9, 9, 9, 9, 9>>, "_", FALSE,
                    "+", 23, 59),
                  W(1958, 1, 1, 0, 0, 0, <<>>, "T", FALSE, "Z", 0, 0),
                  W(2022, 12, 12, 1, 2, 3, <<0, 1>>, "T", FALSE, "-", 0, 0),
                  W(2022, 12, 12, 1, 2, 3, <<0, 1>>, "T", TRUE, "-", 8, 30) } :
          Returns("from_str", [w |-> w, text |-> WrittenBytes(w), kind |-> "written"],
                  from_str(WrittenBytes(w), GLOBAL_OFFSET))
    \/ \E t \in { Bytes(<<"2","0","2","2">>),
                  <<>>,
                  Bytes(<<"2","0","2","2","-","1","2","-","1","2">>),
                  Bytes(<<"2","0","2","2","-","1","2","-","1","2"," ","0","1",":","0","0",
                          ":","0","0">>) } :
          Returns("from_str", [w |-> <<>>, text |-> t, kind |-> "raw"],
                  from_str(t, GLOBAL_OFFSET))
    \/ \E t \in LastOut("to_string") :
          Returns("from_str", [w |-> <<>>, text |-> t, kind |-> "displayed"],
                  from_str(t, GLOBAL_OFFSET))

\* DateTime::from_str_default on a text with no offset token.  The default
\* offsets: whole hours, whole minutes, with seconds, below a minute, below
\* an hour, the largest, and one that is no offset.
FromStrDefault ==
    \E w \in PlainTexts,
       o \in {0, 28800, 28801, -3661, -1800, -59, 86399, -86399, 90000} :
        Returns("from_str_default", [w |-> w, text |-> PlainBytes(w), o |-> o,
                                     kind |-> "plain"],
                from_str_default(PlainBytes(w), o))

\* from_str on a text with no offset token, or with an hour-only offset.
FromStrShort ==
    \/ \E w \in PlainTexts :
          Returns("from_str", [w |-> w, text |-> PlainBytes(w), kind |-> "plain"],
                  from_str(PlainBytes(w), offset_sec))
    \/ \E w \in { H(2024, 7, 26, 9, 3, 48, <<>>, " ", "+", 0),
                  H(2024, 7, 26, 9, 3, 48, <<>>, "T", "+", 8),
                  H(2024, 7, 26, 9, 3, 48, <<1, 2, 3>>, " ", "-", 5) } :
          Returns("from_str", [w |-> w,
                               text |-> PlainBytes(w) \o <<Ord[w.sign]>> \o FmtPad(w.oh, 2),
                               kind |-> "hour_only"],
                  from_str(PlainBytes(w) \o <<Ord[w.sign]>> \o FmtPad(w.oh, 2), offset_sec))

\* Date::from_str on digits where the fields stand, or on a text that is too
\* short or has another byte where a digit is to stand.
DateFromStr ==
    \/ \E w \in DateTexts :
          Returns("Date::from_str", [w |-> w, text |-> DateBytes(w), kind |-> "digits"],
                  Date_from_str(DateBytes(w)))
    \/ \E t \in { <<>>,
                  Bytes(<<"2","0","2","4","-","1","4","-","0">>),
                  Bytes(<<"2","0","2","x","-","0","2","-","0","1">>),
                  Bytes(<<"2","0","2","4","-","0"," ","-","0","1">>),
                  Bytes(<<"2","0","2","4","-","0","2","-","-","1">>) } :
          Returns("Date::from_str", [w |-> <<>>, text |-> t, kind |-> "raw"],
                  Date_from_str(t))

\* set_day, set_mon (u8) and set_year (u16).
SetDay ==
    \E a \in {0, 1, 28, 29, 30, 31, 50} : Returns("set_day", a, Val(set_day(dt, a)))

SetMon ==
    \E a \in {0, 1, 2, 4, 12, 50} : Returns("set_mon", a, Val(set_mon(dt, a)))

SetYear ==
    \E a \in {1900, 2000, 2023, 2024, 10000} :
        Returns("set_year", a, Val(set_year(dt, a)))

\* Time::from_str on a written text, on a text that is no time (too short,
\* a field out of range, a byte that is no digit), or on the text the last
\* to_string returned.
TimeFromStr ==
    \/ \E w \in { TT(11, 12, 13, "", <<>>, <<>>),
                  TT(0, 0, 0, "", <<>>, <<Ord["Z"]>>),
                  TT(1, 0, 0, ".", <<>>, <<>>),
                  TT(1, 0, 0, ",", <<>>, <<>>),
                  TT(1, 0, 0, ".", <<>>, <<Ord["Z"]>>),
                  TT(11, 12, 13, ".", <<1>>, <<>>),
                  TT(11, 12, 13, ".", <<1, 2>>, <<>>),
                  TT(11, 12, 13, ",", <<1, 2>>, <<>>),
                  TT(11, 12, 13, ".", <<1, 2, 3>>, <<>>),
                  TT(11, 12, 13, ".", <<1, 2, 3, 4>>, <<Ord["+"], Ord["0"], Ord["8"]>>),
                  TT(11, 12, 13, ".", <<1, 2, 0>>, <<>>),
                  TT(11, 12, 13, ".", <<0, 0, 0>>, <<>>),
                  TT(14, 1, 58, ".", <<1, 7, 5, 8, 6, 1>>, <<>>),
                  TT(11, 12, 13, ".", <<1, 2, 3, 4, 5, 6, 7, 8>>, <<>>),
                  TT(23, 59, 59, ".", <<9, 9, 9, 9, 9, 9, 9, 9, 9>>, <<>>),
                  TT(0, 0, 0, ",", <<0, 0, 0, 0, 0, 0, 0, 0, 1>>, <<Ord["Z"]>>),
                  TT(11, 12, 13, ".", <<1, 2, 3, 4, 5, 6, 7, 8, 9, 1>>, <<>>),
                  TT(11, 12, 13, ",", <<1, 2, 3, 4, 5, 6, 7, 8, 9, 1, 0>>, <<>>) } :
          Returns("Time::from_str", [w |-> w, text |-> TimeBytes(w), kind |-> "fields"],
                  Time_from_str(TimeBytes(w)))
    \/ \E t \in { <<>>,
                  Bytes(<<"1","1","1">>),
                  Bytes(<<"1","1",":","1","2">>),
                  Bytes(<<"6","6",":","0","4",":","0","5">>),
                  Bytes(<<"0","1",":","6","6",":","0","5">>),
                  Bytes(<<"0","1",":","0","0",":","6","6">>),
                  Bytes(<<"0","1",":","0","0",":","0","x">>) } :
          Returns("Time::from_str", [w |-> <<>>, text |-> t, kind |-> "raw"],
                  Time_from_str(t))
    \/ \E t \in LastOut("Time::to_string") :
          Returns("Time::from_str", [w |-> <<>>, text |-> t, kind |-> "displayed"],
                  Time_from_str(t))

\* impl Display for Time.
TimeDisplay == Reads("Time::to_string", <<>>, Time_to_string(dt))

WeekDay == Reads("week_day", <<>>, week_day(dt))

\* DateTime::parse on an input written after the format, or on a short one.
Parse ==
    \/ \E f \in Formats,
          w \in { CW(2022, 12, 13, 11, 12, 14, <<1, 2, 3, 4, 5, 6, 7, 8, 9>>,
                     "+", 6, 0, "-", "Z"),
                  CW(1234, 12, 13, 11, 12, 13, <<1, 2, 3, 4, 5, 6, 0, 0, 0>>,
                     "-", 8, 30, "_", "_"),
                  CW(2024, 2, 29, 23, 59, 59, <<0, 0, 0, 0, 0, 1, 0, 0, 0>>,
                     "+", 23, 59, "/", "z") } :
          Returns("parse", [w |-> w, format |-> f, text |-> InputBytes(f, w),
                            kind |-> "written"],
                  parse(FormatBytes(f), InputBytes(f, w), offset_sec))
    \/ \E f \in Formats,
          t \in { Bytes(<<"2","0","2","2","-","1","2","-","1","3">>),
                  Bytes(<<"2","0","2","2","-","1","2","-","1","3"," ","1","2",":",
                          "1","2",":","1","2">>) } :
          Returns("parse", [w |-> <<>>, format |-> f, text |-> t, kind |-> "short"],
                  parse(FormatBytes(f), t, offset_sec))

\* DateTime::parse on the first k bytes of an input written after the
\* format: the format of the tests, one with the fields in reverse, one with
\* the day first, and one whose tokens do not fit the 35-byte buffer.
ParseShort ==
    \E f \in { <<"YYYY","-","MM","-","DD"," ","hh",":","mm",":","ss",".000000000",
                 "+00:00">>,
               <<"Z","ss","mm","hh","DD","MM","YYYY">>,
               <<"DD","/","MM","/","YYYY"," ","hh",":","mm">>,
               <<"YYYY","-","MM","-","DD"," ","hh",":","mm",":","ss",".000000000",
                 "Z","+00:00">> },
       k \in {0, 3, 9, 15, 20, 29, 35, 36} :
        LET w == CW(2022, 12, 13, 12, 12, 12, <<1, 2, 3, 4, 5, 6, 7, 8, 9>>, "+", 8, 0, "-", "Z")
        IN  /\ k <= Len(InputBytes(f, w))
            /\ CanCall
            /\ \E r \in {parse(FormatBytes(f), SubSeq(InputBytes(f, w), 1, k), offset_sec)} :
                  Returns("parse", [w |-> w, format |-> f,
                                    text |-> SubSeq(InputBytes(f, w), 1, k),
                                    kind |-> "prefix"], r)

(************************ the specifications *******************************)

\* The values a run starts from: each a valid wall-clock reading with an
\* offset inside (-86400, 86400), as DateTime::from((Date, Time, i32)) or
\* from_str builds them.
Init ==
    /\ dt \in { MkDateTime(2023, 12, 12, 12, 12, 12, 12, 0),
                MkDateTime(2022, 12, 12, 0, 0, 0, 0, 28800),
                MkDateTime(2022, 12, 12, 8, 0, 0, 0, -28800),
                MkDateTime(2022, 12, 11, 16, 0, 0, 0, 0),
                MkDateTime(2023, 10, 13, 16, 57, 41, 123926000, 19800),
                MkDateTime(2000, 1, 1, 0, 0, 1, 0, 1),
                MkDateTime(1999, 12, 31, 23, 59, 59, 0, -1),
                MkDateTime(2024, 2, 29, 23, 59, 59, 500000000, -3661),
                MkDateTime(1970, 1, 1, 0, 0, 0, 0, 0),
                MkDateTime(1969, 12, 31, 23, 59, 59, 999999999, 0),
                MkDateTime(1958, 1, 1, 0, 0, 0, 0, 0),
                MkDateTime(1600, 11, 15, 15, 37, 33, 595407000, 0),
                MkDateTime(2600, 1, 1, 0, 0, 0, 120000000, 0),
                MkDateTime(1, 1, 1, 0, 0, 0, 0, 0),
                MkDateTime(9999, 12, 31, 23, 59, 59, 999999999, 0),
                MkDateTime(2022, 7, 27, 23, 0, 0, 1000, 86399),
                MkDateTime(2022, 7, 27, 1, 0, 0, 0, -86399) }
    /\ calls = <<>>
    /\ panicked = FALSE
    /\ once = "complete"
    /\ pc = [t \in Threads |-> <<"", "idle">>]
    /\ seen = [t \in Threads |-> <<>>]
    /\ inits = 1
    /\ GLOBAL_OFFSET \in LocalOffsets

\* Offsets and arithmetic.
SpecOffset == Init /\ [][SetOffset \/ Add \/ Sub]_vars

\* Timestamps and SystemTime.
SpecStamp ==
    Init /\ [][\/ UnixTimestamp \/ UnixTimestampMillis \/ UnixTimestampMicros
               \/ UnixTimestampNano
               \/ FromTimestamp \/ FromTimestampMillis \/ FromTimestampMicros
               \/ FromTimestampNano
               \/ FromSystemTime \/ IntoSystemTime]_vars

\* Order, equality and difference.
SpecCmp == Init /\ [][SetOffset \/ Cmp \/ Eq \/ Before \/ After \/ SubDateTime]_vars

\* The text form.
SpecText == Init /\ [][DisplayFmt \/ FromStr]_vars

\* DateTime::from on a Date, a Time and an offset inside the clamp, at the
\* ends of the years a Date can hold and between them.
FromDateTimeOffset ==
    \E d \in {MkDate(2022, 12, 12), MkDate(9999, 12, 31), MkDate(0, 1, 1)},
       t \in {MkTime(0, 0, 0, 0), MkTime(12, 12, 12, 12),
               MkTime(23, 59, 59, 999999999)},
       o \in {28800, -86398, 1} :
        \E r \in {from_date_time_offset(d, t, o, offset_sec)} :
            Returns("from((d,t,o))", <<d, t, o>>, r)

FromDateTime ==
    \E d \in {MkDate(2023, 12, 12), MkDate(9999, 12, 31), MkDate(0, 1, 1)},
       t \in {MkTime(0, 0, 0, 0), MkTime(12, 12, 12, 12),
               MkTime(23, 59, 59, 999999999)} :
        \E r \in {from_date_time(d, t, offset_sec)} :
            Returns("from((d,t))", <<d, t>>, r)

FromDateOffset ==
    \E d \in {MkDate(2022, 12, 12), MkDate(9999, 12, 31), MkDate(0, 1, 1)},
       o \in {28800, -86398, 86398} :
        \E r \in {from_date_offset(d, o, offset_sec)} :
            Returns("from((d,o))", <<d, o>>, r)

DateFrom == Reads("Date::from", <<>>, Date_from(dt))

TimeFrom == Reads("Time::from", <<>>, Time_from(dt))

\* add_sub_sec forwards and backwards, by less and by more than a day.
AddSubSec ==
    \E s \in {0, 1, -1, 28800, -28800, 86400, -90061} :
        Returns("add_sub_sec", s, add_sub_sec(dt, s))

\* A run of parsing calls starts from any value: the parsers are associated
\* functions and do not read it.
InitParse ==
    /\ dt = MkDateTime(1970, 1, 1, 0, 0, 0, 0, 0)
    /\ calls = <<>>
    /\ panicked = FALSE
    /\ once = "complete"
    /\ pc = [t \in Threads |-> <<"", "idle">>]
    /\ seen = [t \in Threads |-> <<>>]
    /\ inits = 1
    /\ GLOBAL_OFFSET \in LocalOffsets

\* Texts with no offset token or an hour-only one.
SpecDefault == InitParse /\ [][FromStrDefault \/ FromStrShort \/ DisplayFmt]_vars

\* Date::from_str alone.
SpecDateParse == InitParse /\ [][DateFromStr]_vars

\* A Date that Date::from_str returned, under its setters.
SpecDate ==
    /\ dt \in { Date_from_str(DateBytes(w)).v :
                    w \in {x \in DateTexts : Date_from_str(DateBytes(x)).ok} }
    /\ calls = <<>>
    /\ panicked = FALSE
    /\ once = "complete"
    /\ pc = [t \in Threads |-> <<"", "idle">>]
    /\ seen = [t \in Threads |-> <<>>]
    /\ inits = 1
    /\ GLOBAL_OFFSET = 0
    /\ [][SetDay \/ SetMon \/ SetYear]_vars

\* A Time with every field in range, its text and what the text reads as.
SpecTime ==
    /\ dt \in { MkTime(0, 0, 0, 0), MkTime(23, 59, 59, 999999999), MkTime(8, 0, 0, 123456),
                MkTime(11, 12, 13, 120000000), MkTime(11, 12, 13, 123000000),
                MkTime(11, 12, 13, 123456000), MkTime(14, 1, 58, 100000000),
                MkTime(1, 2, 3, 1), MkTime(1, 2, 3, 1000) }
    /\ calls = <<>>
    /\ panicked = FALSE
    /\ once = "complete"
    /\ pc = [t \in Threads |-> <<"", "idle">>]
    /\ seen = [t \in Threads |-> <<>>]
    /\ inits = 1
    /\ GLOBAL_OFFSET = 0
    /\ [][TimeFromStr \/ TimeDisplay]_vars

\* The day of the week of a value, moved to other offsets and other days.
SpecWeek == Init /\ [][SetOffset \/ Add \/ WeekDay]_vars

\* The hosts of a custom parse: at UTC, east and west of it.
SpecCustom ==
    /\ dt = MkDateTime(1970, 1, 1, 0, 0, 0, 0, 0)
    /\ calls = <<>>
    /\ panicked = FALSE
    /\ once = "complete"
    /\ pc = [t \in Threads |-> <<"", "idle">>]
    /\ seen = [t \in Threads |-> <<>>]
    /\ inits = 1
    /\ GLOBAL_OFFSET \in LocalOffsets \cup {-12600}
    /\ [][Parse]_vars

\* DateTime::parse on inputs that end early.
SpecShort == InitParse /\ [][ParseShort]_vars

\* DateTime out of a Date, a Time and an offset, and back to a Date and a Time.
SpecCompose ==
    InitParse /\ [][\/ FromDateTimeOffset \/ FromDateTime \/ FromDateOffset
                    \/ DateFrom \/ TimeFrom]_vars

\* Arithmetic on the instant.
SpecArith == Init /\ [][Add \/ Sub \/ AddSubSec]_vars

\* set_nano on a u32: nothing, one, the nanoseconds some values have, the
\* most that stays below a second and the least that does not.
SetNano ==
    \E n \in {0, 1, 12, 999999, 1000000} :
        Returns("set_nano", n, set_nano(dt, n))

\* format on the templates of the tests, on one with the fields in another
\* order and nine fraction digits, on one that names the year and the month
\* twice, and on one with a two-byte character (U+00E9) between the fields.
Format ==
    \E fmt \in
        { FormatBytes(<<"YYYY","-","MM","-","DD","/","hh","/","mm","/","ss",".000000">>),
          FormatBytes(<<"YYYY","-","MM","-","DD","/","hh","/","mm","/","ss",".000000",
                        "/","+00:00">>),
          FormatBytes(<<"hh",":","mm",":","ss",".000000000"," ","DD","/","MM","/","YYYY",
                        " ","+00:00">>),
          FormatBytes(<<"YYYY","-","MM"," ","YYYY","/","MM">>),
          FormatBytes(<<"YYYY">>) \o <<195, 169>> \o FormatBytes(<<"MM">>) } :
        CanCall /\ \E r \in {format(dt, fmt, 0, <<>>)} : Reads("format", fmt, r)

\* The sub-second part set, and the value written after a template.
SpecFormat == Init /\ [][SetNano \/ Format]_vars

\* The three from_str on texts that are no date or time: empty, short,
\* letters, and texts with a two-byte character (U+00E9, bytes C3 A9) at the
\* start, over bytes 9-10, over bytes 10-11, at the sixth byte from the end
\* and after the seconds.
FromStrRaw ==
    \E t \in { <<>>,
                Bytes(<<"2","0","2","2">>),
                Bytes(<<"x","x","x","x","_","x","x","_","x","x","x","x","_","x">>),
                <<195, 169>> \o Bytes(<<"0","2","2","-","1","2","-","1","2"," ","0","0",":",
                                        "0","0",":","0","0","Z">>),
                Bytes(<<"2","0","2","2","-","1","2","-","1">>) \o <<195, 169>>
                    \o Bytes(<<"0","0",":","0","0",":","0","0","Z">>),
                Bytes(<<"2","0","2","2","-","1","2","-","1","2">>) \o <<195, 169>>
                    \o Bytes(<<"0","0",":","0","0",":","0","0","Z">>),
                Bytes(<<"2","0","2","2","-","1","2","-","1","2","T","0","0",":","0","0",
                        ":","0">>) \o <<195, 169>> \o Bytes(<<"0","0",":","0","0">>),
                Bytes(<<"1","2",":","0","0",":","0","0">>) \o <<195, 169>> } :
        \/ Returns("from_str", [w |-> <<>>, text |-> t, kind |-> "raw"],
                   from_str(t, offset_sec))
        \/ Returns("Date::from_str", [w |-> <<>>, text |-> t, kind |-> "raw"],
                   Date_from_str(t))
        \/ Returns("Time::from_str", [w |-> <<>>, text |-> t, kind |-> "raw"],
                   Time_from_str(t))

\* Date::parse_bytes_partial and Time::parse_bytes_partial on slices of 0, 9,
\* 10 and more bytes, with other bytes where the separators stand and after
\* the fields, and at offsets before, at and past the end of the slice.
ParseBytesPartial ==
    \/ \E bytes \in
            { <<>>,
              Bytes(<<"2","0","2","4","-","0","2","-","2">>),
              Bytes(<<"2","0","2","4","-","0","2","-","2","9">>),
              Bytes(<<"2","0","2","4","x","0","2","_","2","9"," ","x","x">>),
              Bytes(<<"2","0","x","4","-","0","2","-","2","9">>) } :
          Returns("Date::parse_bytes_partial", bytes, Date_parse_bytes_partial(bytes))
    \/ \E bytes \in
            { Bytes(<<"2","0","2","4","-","0","2","-","2","9","T","1","2",":","3","4",
                      ":","5","6",".","5">>),
              Bytes(<<"2","0","2","4","-","0","2","-","2","9","T","1","2",":","3","4">>),
              Bytes(<<"2","0","2","4","-","0","2","-","2","9","T","1","2",":","3">>) },
          off \in {0, 11, 16, 30} :
          Returns("Time::parse_bytes_partial", <<bytes, off>>,
                  Time_parse_bytes_partial(bytes, off))

\* The parsers on any text.
SpecRaw == InitParse /\ [][FromStrRaw \/ ParseBytesPartial]_vars

(******************** GLOBAL_OFFSET and its readers ************************)

\* A thread calls offset_sec() or DateTime::now(); both begin with
\* GLOBAL_OFFSET.deref(), which is Lazy::force.
Call(t) ==
    /\ pc[t] = <<"", "idle">>
    /\ Len(seen[t]) < MaxReads
    /\ \E op \in {"offset_sec", "now"} : pc' = [pc EXCEPT ![t] = <<op, "force">>]
    /\ UNCHANGED <<dt, calls, panicked, GLOBAL_OFFSET, once, seen, inits>>

\* Lazy::force finds the cell complete: the thread gets the value, and
\* now() makes of it the offset of the DateTime it returns. While another
\* thread runs the initializer the thread waits here.
Force(t) ==
    /\ pc[t][2] = "force"
    /\ once = "complete"
    /\ \E s \in {<<0, 0, 0>>, <<19000, 1, 1>>} :
          LET got == IF pc[t][1] = "now"
                     THEN set_offset(from_system_time(s, 0).v, GLOBAL_OFFSET).v.offset
                     ELSE GLOBAL_OFFSET
          IN  seen' = [seen EXCEPT ![t] = Append(@, got)]
    /\ pc' = [pc EXCEPT ![t] = <<"", "idle">>]
    /\ UNCHANGED <<dt, calls, panicked, GLOBAL_OFFSET, once, inits>>

\* A cell taken by a test and a store in place of the compare-and-swap: a
\* second thread passes the test before the first has stored.
ClaimWithoutSwap(t) ==
    /\ pc[t][2] = "force"
    /\ once \in {"incomplete", "running"}
    /\ once' = "running"
    /\ pc' = [pc EXCEPT ![t][2] = "init"]
    /\ UNCHANGED <<dt, calls, panicked, GLOBAL_OFFSET, seen, inits>>

\* Lazy::force finds the cell incomplete and takes it: one compare-and-swap
\* to running, which one thread wins.
Claim(t) ==
    /\ pc[t][2] = "force"
    /\ once = "incomplete"
    /\ once' = "running"
    /\ pc' = [pc EXCEPT ![t][2] = "init"]
    /\ UNCHANGED <<dt, calls, panicked, GLOBAL_OFFSET, seen, inits>>

\* The thread that took the cell runs the initializer, which asks the host
\* for its offset at that moment, stores the value and completes the cell.
Initialize(t) ==
    /\ pc[t][2] = "init"
    /\ \E host \in {0, 28800, -18000} : GLOBAL_OFFSET' = host
    /\ once' = "complete"
    /\ inits' = inits + 1
    /\ pc' = [pc EXCEPT ![t][2] = "force"]
    /\ UNCHANGED <<dt, calls, panicked, seen>>

\* Threads reading GLOBAL_OFFSET from the start of the process, when nothing
\* has read it yet and the static holds no value.
SpecLazy ==
    /\ dt = MkDateTime(1970, 1, 1, 0, 0, 0, 0, 0)
    /\ calls = <<>>
    /\ panicked = FALSE
    /\ GLOBAL_OFFSET = 0
    /\ once = "incomplete"
    /\ pc = [t \in Threads |-> <<"", "idle">>]
    /\ seen = [t \in Threads |-> <<>>]
    /\ inits = 0
    /\ [][\E t \in Threads : Call(t) \/ Force(t) \/ Claim(t) \/ Initialize(t)]_vars

\* Every operation.
Next ==
    \/ SetOffset \/ Add \/ Sub
    \/ UnixTimestamp \/ UnixTimestampMillis \/ UnixTimestampMicros
    \/ UnixTimestampNano
    \/ FromTimestamp \/ FromTimestampMillis \/ FromTimestampMicros
    \/ FromTimestampNano
    \/ FromSystemTime \/ IntoSystemTime
    \/ Cmp \/ Eq \/ Before \/ After \/ SubDateTime
    \/ DisplayFmt \/ FromStr \/ FromStrDefault \/ FromStrShort \/ Parse \/ ParseShort
    \/ DateFromStr \/ SetDay \/ SetMon \/ SetYear
    \/ TimeFromStr \/ TimeDisplay \/ WeekDay
    \/ FromDateTimeOffset \/ FromDateTime \/ FromDateOffset
    \/ DateFrom \/ TimeFrom \/ AddSubSec \/ FromStrRaw \/ SetNano \/ Format \/ ParseBytesPartial
    \/ \E t \in Threads : Call(t) \/ Force(t) \/ Claim(t) \/ Initialize(t)

Spec == Init /\ [][Next]_vars

(***************************** the claims **********************************)

Called(op) == calls # <<>> /\ LastCall.op = op

\* The last two calls were op1 and then op2.
CalledAfter(op1, op2) ==
    Len(calls) >= 2 /\ PrevCall.op = op1 /\ LastCall.op = op2

Instant(v) == unix_timestamp_nano(v)

\* C1: Text round trip: from_str of the text to_string gave succeeds and
\* returns the value it was made from, with the same wall-clock fields, nanos
\* and offset.
C1_TextRoundTrip ==
    (CalledAfter("to_string", "from_str") /\ LastCall.arg.kind = "displayed")
        => /\ LastCall.out.ok
           /\ LastCall.out.v = PrevCall.self

\* The offset token the rendering is to end with: Z for zero, otherwise the
\* sign, two digits of hours, ':', two digits of minutes and, only when the
\* offset has a seconds remainder, ':' and two digits of seconds.
ZoneToken(o) ==
    IF o = 0 THEN <<Ord["Z"]>>
    ELSE (IF o > 0 THEN <<Ord["+"]>> ELSE <<Ord["-"]>>)
         \o FmtPad(Abs(o) \div 3600, 2) \o <<Ord[":"]>> \o FmtPad((Abs(o) \div 60) % 60, 2)
         \o (IF Abs(o) % 60 # 0 THEN <<Ord[":"]>> \o FmtPad(Abs(o) % 60, 2) ELSE <<>>)

\* C2: Offset rendering: to_string ends with the offset token of the
\* value's offset.
C2_OffsetRendering ==
    Called("to_string") => ends_with(LastCall.out, ZoneToken(LastCall.self.offset))

\* The index in calls of the first call of the run of set_offset calls that
\* ends at call i.
RECURSIVE RunStart(_)
RunStart(i) ==
    IF i > 1 /\ calls[i - 1].op = "set_offset" THEN RunStart(i - 1) ELSE i

Clamped(o) == IF o > 86399 THEN 86399 ELSE IF o < -86399 THEN -86399 ELSE o

\* What the claim says of a set_offset call that returned: the instant is
\* that of the value the run of set_offset calls began with, the offset is
\* the clamped argument, the fields are the UTC fields of the instant moved
\* by that offset.
IsProjection ==
    LET v == calls[RunStart(Len(calls))].self
        o == Clamped(LastCall.arg)
    IN  /\ Instant(dt) = Instant(v)
        /\ offset(dt) = o
        /\ dt = OfLocalT(TAdd(Nano, Instant(v), <<0, o, 0>>), o)

\* C3 as claimed: set_offset is a projection for every value and every i32.
C3_SetOffsetProjectionAlways ==
    Called("set_offset") => ~LastCall.out.panic /\ IsProjection

\* C3 as amended: set_offset panics exactly when the wall-clock reading at
\* the clamped offset is past the last year time1 holds, and is a projection
\* otherwise.
C3_SetOffsetProjection ==
    Called("set_offset") =>
        LET shifted == TAdd(Nano, Instant(LastCall.self),
                            <<0, Clamped(LastCall.arg), 0>>)
        IN  /\ LastCall.out.panic <=> ~InRange(shifted)
            /\ ~LastCall.out.panic => IsProjection

\* Two set_offset calls in a row, the second with an argument the clamp
\* changes, and the fields moved.
C3_Witness ==
    /\ CalledAfter("set_offset", "set_offset")
    /\ ~panicked
    /\ LastCall.arg = 90000
    /\ dt.offset = 86399
    /\ dt.day # calls[1].self.day

\* C4: Order and equality follow the instant alone: cmp is the order of the
\* instants, == their equality, before(b) is b.after(self) and holds when
\* the instant is strictly earlier; a value moved to other offsets compares
\* Equal and == to the value it was.
C4_OrderByInstant ==
    /\ Called("cmp") =>
          LastCall.out =
              IF TLess(Instant(LastCall.self), Instant(LastCall.arg)) THEN "Less"
              ELSE IF Instant(LastCall.self) = Instant(LastCall.arg) THEN "Equal"
              ELSE "Greater"
    /\ Called("eq") =>
          LastCall.out = (Instant(LastCall.self) = Instant(LastCall.arg))
    /\ Called("before") =>
          /\ LastCall.out = after(LastCall.arg, LastCall.self)
          /\ LastCall.out = TLess(Instant(LastCall.self), Instant(LastCall.arg))
    /\ Called("after") =>
          /\ LastCall.out = before(LastCall.arg, LastCall.self)
          /\ LastCall.out = TLess(Instant(LastCall.arg), Instant(LastCall.self))
    /\ (/\ Len(calls) >= 2
        /\ LastCall.op \in {"cmp", "eq", "before", "after"}
        /\ \A i \in 1..(Len(calls) - 1) : calls[i].op = "set_offset"
        /\ LastCall.arg = calls[1].self)
       => /\ LastCall.op = "cmp" => LastCall.out = "Equal"
          /\ LastCall.op = "eq" => LastCall.out = TRUE
          /\ LastCall.op \in {"before", "after"} => LastCall.out = FALSE

\* The value was moved to another offset, so that its fields differ, and
\* compared Equal with what it was.
C4_Witness ==
    /\ CalledAfter("set_offset", "cmp")
    /\ LastCall.arg = calls[1].self
    /\ LastCall.self.offset # LastCall.arg.offset
    /\ LastCall.self.hour # LastCall.arg.hour
    /\ LastCall.out = "Equal"

\* C5: Arithmetic identity: (v + d) - d is v, field for field, whenever
\* v + d is in range.
C5_AddThenSub ==
    (/\ CalledAfter("add", "sub")
     /\ PrevCall.arg = LastCall.arg
     /\ ~PrevCall.out.panic)
        => /\ ~LastCall.out.panic
           /\ dt = PrevCall.self

\* A duration was added to a value with an offset, which moved its date, and
\* subtracted again.
C5_Witness ==
    /\ CalledAfter("add", "sub")
    /\ PrevCall.arg = LastCall.arg
    /\ ~panicked
    /\ PrevCall.self.offset # 0
    /\ LastCall.self.day # PrevCall.self.day
    /\ dt = PrevCall.self

\* |a - b| for two instants.
AbsDiff(a, b) == IF TLess(a, b) THEN TSub(Nano, b, a) ELSE TSub(Nano, a, b)

\* C6: Difference: a - b is |instant(a) - instant(b)| nanoseconds, whichever
\* is earlier, so a - b is b - a.
C6_DifferenceIsAbsolute ==
    Called("sub_datetime") =>
        /\ LastCall.out = AbsDiff(Instant(LastCall.self), Instant(LastCall.arg))
        /\ LastCall.out = sub_datetime(LastCall.arg, LastCall.self)

\* C7: Nanosecond timestamp round trip: from_timestamp_nano of a value's
\* unix_timestamp_nano is == the value, and unix_timestamp_nano of
\* from_timestamp_nano(n) is n.
C7_NanoRoundTrip ==
    /\ (CalledAfter("unix_timestamp_nano", "from_timestamp_nano")
        /\ LastCall.arg = PrevCall.out)
       => /\ LastCall.out.ok
          /\ eq(LastCall.out.v, PrevCall.self)
    /\ (CalledAfter("from_timestamp_nano", "unix_timestamp_nano")
        /\ PrevCall.out.ok)
       => LastCall.out = PrevCall.arg

\* C8: from_timestamp, from_timestamp_millis and from_timestamp_micros give a
\* value at offset 0 whose unix_timestamp, unix_timestamp_millis and
\* unix_timestamp_micros is the argument, negative or not; from_timestamp of
\* -378691200 is 1958-01-01T00:00:00Z.
C8_TimestampInverse ==
    /\ \A u \in { <<"from_timestamp", "unix_timestamp">>,
                   <<"from_timestamp_millis", "unix_timestamp_millis">>,
                   <<"from_timestamp_micros", "unix_timestamp_micros">> } :
          CalledAfter(u[1], u[2]) =>
              /\ PrevCall.out.ok
              /\ LastCall.self = PrevCall.out.v
              /\ offset(LastCall.self) = 0
              /\ LastCall.out = PrevCall.arg
    /\ (Called("from_timestamp") /\ LastCall.arg = <<-4383, 0, 0>>)
       => dt = MkDateTime(1958, 1, 1, 0, 0, 0, 0, 0)

\* from_timestamp_millis was called with a negative argument that is no
\* whole number of seconds, and unix_timestamp_millis gave it back.
C8_Witness ==
    /\ CalledAfter("from_timestamp_millis", "unix_timestamp_millis")
    /\ TIsNeg(PrevCall.arg)
    /\ PrevCall.arg[3] # 0
    /\ LastCall.out = PrevCall.arg

\* C9: SystemTime round trip: SystemTime::from(DateTime::from(s)) is s, before
\* the epoch or after it, and from_system_time(SystemTime::from(v), 0) is the
\* instant of v.
C9_SystemTimeRoundTrip ==
    /\ (CalledAfter("from_system_time", "into_system_time") /\ PrevCall.out.ok)
       => LastCall.out = PrevCall.arg
    /\ (CalledAfter("into_system_time", "from_system_time")
        /\ LastCall.arg = PrevCall.out)
       => /\ LastCall.out.ok
          /\ Instant(LastCall.out.v) = Instant(PrevCall.self)

\* The nanoseconds of a fraction written as 1 to 9 digits.
RECURSIVE WrittenNanos(_, _)
WrittenNanos(ds, mult) ==
    IF ds = <<>> THEN 0 ELSE Head(ds) * mult + WrittenNanos(Tail(ds), mult \div 10)

\* C10: Explicit offset parsing: from_str of a text that carries Z or a
\* signed hh:mm, with or without one space before it, returns the fields as
\* written and the offset the token names, whatever the host's offset.
C10_ExplicitOffset ==
    (Called("from_str") /\ LastCall.arg.kind = "written") =>
        LET w == LastCall.arg.w
            o == IF w.sign = "Z" THEN 0
                 ELSE IF w.sign = "-" THEN -(w.oh * 3600 + w.om * 60)
                 ELSE w.oh * 3600 + w.om * 60
        IN  /\ LastCall.out.ok
            /\ offset(LastCall.out.v) = o
            /\ LastCall.out.v =
                   MkDateTime(w.year, w.mon, w.day, w.hour, w.minute, w.sec,
                              WrittenNanos(w.frac, 100000000), o)

\* A text with a space and a negative offset was parsed on a host whose own
\* offset is another.
C10_Witness ==
    /\ Called("from_str")
    /\ LastCall.arg.kind = "written"
    /\ LastCall.arg.w.space
    /\ LastCall.arg.w.sign = "-"
    /\ GLOBAL_OFFSET # 0
    /\ LastCall.out.ok
    /\ dt.offset = -30600
    /\ dt.minute = 2

\* C11: Default offset: from_str_default of a text with no offset token keeps
\* the fields as written and returns the default offset cut toward zero to
\* whole minutes; from_str is from_str_default with offset_sec().
C11_DefaultOffset ==
    /\ (Called("from_str_default") /\ Abs(LastCall.arg.o) <= 86399) =>
          LET w == LastCall.arg.w
              t == IF w.dateonly THEN <<0, 0, 0, 0>>
                   ELSE <<w.hour, w.minute, w.sec, WrittenNanos(w.frac, 100000000)>>
          IN  /\ LastCall.out.ok
              /\ LastCall.out.v =
                     MkDateTime(w.year, w.mon, w.day, t[1], t[2], t[3], t[4],
                                TruncDiv(LastCall.arg.o, 60) * 60)
    /\ (Called("from_str") /\ LastCall.arg.kind = "plain") =>
          /\ LastCall.out = from_str_default(LastCall.arg.text, GLOBAL_OFFSET)
          /\ LastCall.out.ok
          /\ offset(LastCall.out.v) = TruncDiv(GLOBAL_OFFSET, 60) * 60
          /\ hour(LastCall.out.v) = (IF LastCall.arg.w.dateonly THEN 0 ELSE LastCall.arg.w.hour)

\* A text with a fraction and no offset token was read with a negative
\* default offset that has seconds, which were cut toward zero.
C11_Witness ==
    /\ Called("from_str_default")
    /\ LastCall.arg.o = -3661
    /\ LastCall.arg.w.frac # <<>>
    /\ LastCall.out.ok
    /\ dt.offset = -3660
    /\ dt.hour = 23

\* C12: Hour-only offset: from_str accepts a text whose offset is a sign and
\* two hour digits, returns the fields as written at that whole-hour offset,
\* and "...+00" formats back with a Z.
C12_HourOnlyOffset ==
    /\ (Called("from_str") /\ LastCall.arg.kind = "hour_only") =>
          LET w == LastCall.arg.w
          IN  /\ LastCall.out.ok
              /\ LastCall.out.v =
                     MkDateTime(w.year, w.mon, w.day, w.hour, w.minute, w.sec,
                                WrittenNanos(w.frac, 100000000),
                                (IF w.sign = "-" THEN -1 ELSE 1) * w.oh * 3600)
    /\ (/\ CalledAfter("from_str", "to_string")
        /\ PrevCall.arg.kind = "hour_only"
        /\ PrevCall.arg.w.oh = 0 /\ PrevCall.arg.w.frac = <<>>)
       => LastCall.out = Bytes(<<"2","0","2","4","-","0","7","-","2","6","T","0","9",
                                 ":","0","3",":","4","8","Z">>)

\* The days of a month as the claim states them.
ClaimedDays(y, m) ==
    CASE m = 2 -> IF y % 4 = 0 /\ (y % 100 # 0 \/ y % 400 = 0) THEN 29 ELSE 28
      [] m \in {4, 6, 9, 11} -> 30
      [] OTHER -> 31

ValidDate(d) ==
    /\ d.mon >= 1 /\ d.mon <= 12
    /\ d.day >= 1 /\ d.day <= ClaimedDays(d.year, d.mon)

\* C13: Date validation: on a text with digits where the fields stand,
\* Date::from_str succeeds exactly when the month is 1..12 and the day is
\* 1..days of that month, and returns the date as written; otherwise the
\* error is OutOfRangeMonth for the month, else OutOfRangeDay.
C13_DateValidation ==
    (Called("Date::from_str") /\ LastCall.arg.kind = "digits") =>
        LET w == LastCall.arg.w
            d == MkDate(w.year, w.md[1], w.md[2])
        IN  /\ LastCall.out.ok <=> ValidDate(d)
            /\ LastCall.out.ok => LastCall.out.v = d
            /\ ~LastCall.out.ok =>
                  LastCall.out.err =
                      IF d.mon < 1 \/ d.mon > 12 THEN "OutOfRangeMonth"
                      ELSE "OutOfRangeDay"

\* 1900-02-29 was refused for its day.
C13_Witness ==
    /\ Called("Date::from_str")
    /\ LastCall.arg.kind = "digits"
    /\ LastCall.arg.w.year = 1900 /\ LastCall.arg.w.md = <<2, 29>>
    /\ ~LastCall.out.ok
    /\ LastCall.out.err = "OutOfRangeDay"

\* C14: Date invariant under setters: a Date reached from a parsed one by
\* set_day, set_mon and set_year is a valid date, and a setter called with
\* an out-of-range argument returns the Date unchanged.
C14_DateInvariant ==
    /\ (calls # <<>> /\ LastCall.op \in {"set_day", "set_mon", "set_year"})
       => ValidDate(dt)
    /\ (Called("set_day") /\ LastCall.arg \in {0, 50}) => dt = LastCall.self
    /\ (Called("set_mon") /\ LastCall.arg \in {0, 50}) => dt = LastCall.self
    /\ (Called("set_year") /\ LastCall.arg = 10000) => dt = LastCall.self

\* C15: Fraction parsing: Time::from_str of hh:mm:ss and a '.' or ',' gives
\* SecondFractionMissing when no digit follows, SecondFractionTooLong when
\* more than nine follow, and otherwise the digits padded on the right to
\* nine as nano; with no separator nano is 0.
C15_FractionParsing ==
    (Called("Time::from_str") /\ LastCall.arg.kind = "fields") =>
        LET w == LastCall.arg.w
        IN  IF w.sep = ""
            THEN LastCall.out = Val(MkTime(w.hour, w.minute, w.sec, 0))
            ELSE IF w.frac = <<>>
            THEN ~LastCall.out.ok /\ LastCall.out.err = "SecondFractionMissing"
            ELSE IF Len(w.frac) > 9
            THEN ~LastCall.out.ok /\ LastCall.out.err = "SecondFractionTooLong"
            ELSE LastCall.out =
                     Val(MkTime(w.hour, w.minute, w.sec, WrittenNanos(w.frac, 100000000)))

\* A fraction of two digits after a ',' was read as 120000000.
C15_Witness ==
    /\ Called("Time::from_str")
    /\ LastCall.arg.kind = "fields"
    /\ LastCall.arg.w.sep = "," /\ LastCall.arg.w.frac = <<1, 2>>
    /\ LastCall.out.ok
    /\ dt.nano = 120000000

\* The nine digits of a nano.
NanoDigits(n) ==
    <<(n \div 100000000) % 10, (n \div 10000000) % 10, (n \div 1000000) % 10,
      (n \div 100000) % 10, (n \div 10000) % 10, (n \div 1000) % 10,
      (n \div 100) % 10, (n \div 10) % 10, n % 10>>

RECURSIVE StripZeros(_)
StripZeros(ds) ==
    IF ds # <<>> /\ ds[Len(ds)] = 0 THEN StripZeros(SubSeq(ds, 1, Len(ds) - 1)) ELSE ds

RECURSIVE StripZeroGroups(_)
StripZeroGroups(ds) ==
    IF Len(ds) >= 3 /\ SubSeq(ds, Len(ds) - 2, Len(ds)) = <<0, 0, 0>>
    THEN StripZeroGroups(SubSeq(ds, 1, Len(ds) - 3)) ELSE ds

\* hh:mm:ss of a Time, and the fraction given as digits.
TimeText(t, ds) ==
    FmtPad(t.hour, 2) \o <<Ord[":"]>> \o FmtPad(t.minute, 2) \o <<Ord[":"]>> \o FmtPad(t.sec, 2)
    \o (IF ds = <<>> THEN <<>> ELSE <<Ord["."]>> \o DigitBytes(ds))

\* C16 as claimed: the fraction is left out when nano is 0 and otherwise cut
\* to the last group of three digits that is not 000, so it has 3, 6 or 9
\* digits.
C16_FractionTrimmedByGroups ==
    Called("Time::to_string") =>
        /\ LastCall.out = TimeText(LastCall.self, StripZeroGroups(NanoDigits(LastCall.self.nano)))
        /\ Len(LastCall.out) \in {8, 12, 15, 18}

\* C16 as amended: the fraction is left out when nano is 0 and otherwise
\* every trailing zero digit is dropped, so it has 1 to 9 digits and ends
\* with a digit that is not 0.
C16_FractionTrimmed ==
    Called("Time::to_string") =>
        /\ LastCall.out = TimeText(LastCall.self, StripZeros(NanoDigits(LastCall.self.nano)))
        /\ LastCall.self.nano = 0 => Len(LastCall.out) = 8
        /\ LastCall.self.nano # 0 =>
              /\ Len(LastCall.out) >= 10 /\ Len(LastCall.out) <= 18
              /\ LastCall.out[Len(LastCall.out)] # Ord["0"]

\* A nano of 120000000 was rendered with two digits.
C16_Witness ==
    /\ Called("Time::to_string")
    /\ LastCall.self.nano = 120000000
    /\ Len(LastCall.out) = 11

\* C17: Time text round trip: from_str of the text of a Time is the Time,
\* and the text of what from_str read from hh:mm:ss.f, with 1 to 9 digits
\* the last of which is not 0, is that text.
C17_TimeRoundTrip ==
    /\ (CalledAfter("Time::to_string", "Time::from_str")
        /\ LastCall.arg.kind = "displayed")
       => LastCall.out = Val(PrevCall.self)
    /\ (/\ CalledAfter("Time::from_str", "Time::to_string")
        /\ PrevCall.arg.kind = "fields"
        /\ PrevCall.arg.w.sep = "." /\ PrevCall.arg.w.tail = <<>>
        /\ Len(PrevCall.arg.w.frac) \in 1..9
        /\ PrevCall.arg.w.frac[Len(PrevCall.arg.w.frac)] # 0)
       => LastCall.out = PrevCall.arg.text

\* "11:12:13.12" was read and written back.
C17_Witness ==
    /\ CalledAfter("Time::from_str", "Time::to_string")
    /\ PrevCall.arg.kind = "fields"
    /\ PrevCall.arg.w.frac = <<1, 2>> /\ PrevCall.arg.w.sep = "."
    /\ LastCall.self.nano = 120000000
    /\ LastCall.out = PrevCall.arg.text

\* C18: week_day range: week_day returns a value in 0..6.
C18_WeekDayRange ==
    Called("week_day") => LastCall.out \in 0..6

\* C19: week_day correctness: week_day names the day of the week of the UTC
\* day that holds the instant, Wednesday being 3 and Saturday 6, before
\* 1970 as after (1970-01-01, day 0, was a Thursday); the seventh day is
\* taken as 0 or 7 alike.
C19_WeekDayOfUtcDay ==
    Called("week_day") =>
        LastCall.out % 7 = (Instant(LastCall.self)[1] + 4) % 7

\* The tokens of a format, as a set.
TokensOf(f) == {f[i] : i \in 1..Len(f)}

\* C20: Position-based custom parse: parse reads each field from the input
\* at the place and width of its token in the format, whatever the order of
\* the tokens and the bytes between them; a time token that is absent gives
\* zeros; a Z in the format gives offset 0 whatever the input has there, a
\* "+00:00" gives the offset the input has there, and with neither the
\* offset is the local one.
C20_CustomParse ==
    (/\ Called("parse") /\ LastCall.arg.kind = "written"
     /\ {"YYYY", "MM", "DD"} \subseteq TokensOf(LastCall.arg.format)
     /\ ~({"Z", "+00:00"} \subseteq TokensOf(LastCall.arg.format)))
    =>  LET w == LastCall.arg.w
            ts == TokensOf(LastCall.arg.format)
            n == IF ".000000000" \in ts THEN WrittenNanos(w.frac, 100000000)
                 ELSE IF ".000000" \in ts
                 THEN WrittenNanos(SubSeq(w.frac, 1, 6), 100000000)
                 ELSE 0
            off == IF "Z" \in ts THEN 0
                   ELSE IF "+00:00" \in ts
                   THEN (IF w.sign = "-" THEN -1 ELSE 1) * (w.oh * 3600 + w.om * 60)
                   ELSE GLOBAL_OFFSET
        IN  LastCall.out =
                Val(MkDateTime(w.year, w.mon, w.day,
                               IF "hh" \in ts THEN w.hour ELSE 0,
                               IF "mm" \in ts THEN w.minute ELSE 0,
                               IF "ss" \in ts THEN w.sec ELSE 0,
                               n, off))

\* A format with the time before the date and no offset token, with '_'
\* between the fields of the input, was read on a host west of UTC.
C20_Witness ==
    /\ Called("parse")
    /\ LastCall.arg.kind = "written"
    /\ LastCall.arg.format[1] = "DD"
    /\ LastCall.arg.w.sep = "_"
    /\ GLOBAL_OFFSET = -12600
    /\ LastCall.out.ok
    /\ dt = MkDateTime(1234, 12, 13, 11, 12, 0, 0, -12600)

\* The fixed order of the blocks of parse, for a format: the fraction is the
\* nine-digit token when the format has it, the six-digit one otherwise.
BlockOrder(f) ==
    <<"YYYY", "MM", "DD", "hh", "mm", "ss",
      IF ".000000000" \in TokensOf(f) THEN ".000000000" ELSE ".000000", "+00:00">>

\* The bytes of the input a token stands for.
TokenWidth(p) == IF p = "YYYY" THEN 4 ELSE IF p = "Z" THEN 0 ELSE Len(TokenBytes(p))

\* Where a token stands in the format: the bytes of the pieces before it.
TokenStart(f, p) ==
    LET i == CHOOSE j \in 1..Len(f) : f[j] = p /\ \A h \in 1..(j - 1) : f[h] # p
    IN  Len(FormatBytes(SubSeq(f, 1, i - 1)))

\* The tokens of the format whose bytes the input does not hold, in the
\* fixed order.
ShortTokens(f, t) ==
    SelectSeq(BlockOrder(f),
              LAMBDA p : p \in TokensOf(f) /\ TokenStart(f, p) + TokenWidth(p) > Len(t))

\* C21: Custom parse errors: when the input is too short to hold the bytes of
\* a token of the format, parse returns Err, does not panic and leaves no
\* value, and the message names the first such token in the order YYYY, MM,
\* DD, hh, mm, ss, fraction, offset.
C21_ShortInputError ==
    (Called("parse") /\ ShortTokens(LastCall.arg.format, LastCall.arg.text) # <<>>)
    =>  /\ LastCall.out = ErrE(Head(ShortTokens(LastCall.arg.format, LastCall.arg.text)))
        /\ ~panicked
        /\ dt = LastCall.self

\* Three bytes were given for a format that starts with Z, ss and mm and ends
\* with YYYY: the error names YYYY.
C21_Witness ==
    /\ Called("parse")
    /\ LastCall.arg.format[1] = "Z"
    /\ Len(LastCall.arg.text) = 3
    /\ ShortTokens(LastCall.arg.format, LastCall.arg.text)
           = <<"YYYY", "MM", "DD", "hh", "mm">>
    /\ LastCall.out = ErrE("YYYY")


\* The value DateTime::from is claimed to return for a Date d, a Time t and an
\* offset o: the fields of d and t on a clock o seconds ahead of UTC.
Composed(d, t, o) ==
    MkDateTime(d.year, d.mon, d.day, t.hour, t.minute, t.sec, t.nano, o)

\* What the last composition was asked for: the Date, the Time (midnight
\* when none was given) and the offset (0 when none was given).
ComposedArg ==
    LET a == LastCall.arg
    IN  CASE LastCall.op = "from((d,t,o))" -> Composed(a[1], a[2], a[3])
          [] LastCall.op = "from((d,t))" -> Composed(a[1], a[2], 0)
          [] OTHER -> Composed(a[1], MkTime(0, 0, 0, 0), a[2])

IsComposition ==
    /\ calls # <<>>
    /\ LastCall.op \in {"from((d,t,o))", "from((d,t))", "from((d,o))"}

\* C22: Composition from a tuple: for a valid Date d, a valid Time t and an
\* offset o with -86399 < o < 86399, DateTime::from((d, t, o)) returns the
\* value with the wall-clock fields d and t and the offset o, whose instant is
\* the civil instant of d and t less o; from((d, t)) is the same with offset 0
\* and from((d, o)) the same with t = 00:00:00.
C22_Composition ==
    IsComposition =>
        /\ LastCall.out = Val(ComposedArg)
        /\ ~panicked
        /\ Instant(dt) = TSub(Nano, LocalT(ComposedArg), <<0, ComposedArg.offset, 0>>)

\* C23: Projection to Date and Time: Date::from(v) and Time::from(v) carry
\* the wall-clock fields of v under its own offset, not the UTC ones.
C23_Projection ==
    /\ Called("Date::from") =>
            /\ LastCall.out = MkDate(dt.year, dt.mon, dt.day)
            /\ dt = LastCall.self
    /\ Called("Time::from") =>
            /\ LastCall.out = MkTime(dt.hour, dt.minute, dt.sec, dt.nano)
            /\ dt = LastCall.self

\* 2022-12-12 00:00:00+08:00 gives 2022-12-12, though its UTC day is the 11th.
C23_Witness ==
    /\ Called("Date::from")
    /\ dt = MkDateTime(2022, 12, 12, 0, 0, 0, 0, 28800)
    /\ LastCall.out = MkDate(2022, 12, 12)
    /\ Date_from(OfLocalT(Instant(dt), 0)) = MkDate(2022, 12, 11)


\* C26: add, sub and add_sub_sec move the instant and keep the offset: when
\* the result is inside the representable range, add(d) moves the instant
\* forward by d, sub(d) moves it back by d, add_sub_sec(s) moves the unix
\* timestamp by s, for negative s as for the others, and the offset of the
\* result is the offset of the value.
C26_MoveInstantKeepOffset ==
    LET v == LastCall.self
        d == LastCall.arg
        s == <<LastCall.arg \div 86400, LastCall.arg % 86400, 0>>
    IN  /\ (Called("add") /\ InRange(TAdd(Nano, LocalT(v), d))) =>
                /\ ~panicked
                /\ Instant(dt) = TAdd(Nano, Instant(v), d)
                /\ dt.offset = v.offset
        /\ (Called("sub") /\ InRange(TSub(Nano, LocalT(v), d))) =>
                /\ ~panicked
                /\ Instant(dt) = TSub(Nano, Instant(v), d)
                /\ dt.offset = v.offset
        /\ (Called("add_sub_sec") /\ InRange(TAdd(Nano, LocalT(v), s))) =>
                /\ ~panicked
                /\ unix_timestamp(dt) = TAdd(Nano, unix_timestamp(v), s)
                /\ dt.offset = v.offset

\* Seconds were taken from a value on a clock ahead of UTC, back over
\* midnight.
C26_Witness ==
    /\ Called("add_sub_sec")
    /\ LastCall.arg < 0
    /\ LastCall.self.offset = 28800
    /\ dt.day # LastCall.self.day
    /\ dt.offset = 28800
    /\ ~panicked


\* C24: Local-offset cache: with several threads in offset_sec() and
\* DateTime::now() at once, the first readers among them, the host offset is
\* computed once, every reader gets the value that was computed, and once
\* the cell is complete the value does not change.
C24_OffsetComputedOnce ==
    /\ [](/\ inits <= 1
          /\ once = "complete" => inits = 1
          /\ \A t \in Threads : \A i \in 1..Len(seen[t]) :
                seen[t][i] = GLOBAL_OFFSET)
    /\ [][once = "complete" => GLOBAL_OFFSET' = GLOBAL_OFFSET]_vars

\* Thread 1 has its value while threads 2 and 3, which have read nothing
\* yet, are inside Lazy::force, one in offset_sec() and one in now().
C24_Witness ==
    /\ seen[1] = <<28800>>
    /\ seen[2] = <<>> /\ pc[2] = <<"offset_sec", "force">>
    /\ seen[3] = <<>> /\ pc[3] = <<"now", "force">>
    /\ inits = 1


\* C25: No panics on parse: DateTime::from_str, Date::from_str and
\* Time::from_str return Ok or Err on every text, an empty one, a short one
\* and one with a multi-byte character around byte 10 among them; they never
\* panic.
C25_ParseNeverPanics ==
    (calls # <<>> /\ LastCall.op \in {"from_str", "Date::from_str", "Time::from_str"})
        => /\ ~LastCall.out.panic
           /\ ~panicked


\* C27: set_nano(n) replaces only the sub-second part: year, month, day,
\* hour, minute, second and offset stay; the sub-second part of the result is
\* the one set_nano(n) gives a value that had none, whatever the value had
\* before; set_nano(0) renders with no fraction and set_nano(1) with the
\* fraction '.000001'.
C27_SetNanoFrame ==
    Called("set_nano") =>
        LET v == LastCall.self
            n == LastCall.arg
            text == to_string(dt)
        IN  /\ ~panicked
            /\ [dt EXCEPT !.nano = 0] = [v EXCEPT !.nano = 0]
            /\ dt.nano = set_nano([v EXCEPT !.nano = 0], n).v.nano
            /\ n = 0 => At(text, 19) # Ord["."]
            /\ n = 1 => /\ Slice(text, 19, 26) = Bytes(<<".", "0", "0", "0", "0", "0", "1">>)
                        /\ ~is_ascii_digit(At(text, 26))


\* The field a token stands for, zero-padded.
TokenField(v, p) ==
    CASE p = "YYYY" -> FmtPad(v.year, 4)
      [] p = "MM" -> FmtPad(v.mon, 2)
      [] p = "DD" -> FmtPad(v.day, 2)
      [] p = "hh" -> FmtPad(v.hour, 2)
      [] p = "mm" -> FmtPad(v.minute, 2)
      [] p = "ss" -> FmtPad(v.sec, 2)
      [] p = ".000000" -> <<Ord["."]>> \o FmtPad(v.nano \div 1000, 6)
      [] p = ".000000000" -> <<Ord["."]>> \o FmtPad(v.nano, 9)
      [] OTHER -> <<IF v.offset >= 0 THEN Ord["+"] ELSE Ord["-"]>>
                  \o FmtPad(Abs(v.offset) \div 3600, 2) \o <<Ord[":"]>>
                  \o FmtPad((Abs(v.offset) \div 60) % 60, 2)

\* The text with the first occurrence of the token replaced by its field,
\* and nothing else touched.
ReplaceOnce(text, v, p) ==
    LET i == find(text, TokenBytes(p))
    IN  IF i = -1 THEN text
        ELSE Slice(text, 0, i) \o TokenField(v, p)
             \o Slice(text, i + Len(TokenBytes(p)), Len(text))

\* Find-and-replace-once of every token, the longer fraction token first.
RECURSIVE ReplaceEachOnce(_, _, _)
ReplaceEachOnce(text, v, ps) ==
    IF ps = <<>> THEN text
    ELSE ReplaceEachOnce(ReplaceOnce(text, v, Head(ps)), v, Tail(ps))

\* C28: Custom format: format(template) replaces the first occurrence of each
\* token with its zero-padded field (YYYY, MM, DD, hh, mm, ss, '.000000' the
\* microseconds, '.000000000' the nanoseconds, '+00:00' the sign and the
\* offset as hh:mm) and copies every other character of the template as it
\* is, a later repetition of a token among them.
C28_FormatReplacesOnce ==
    Called("format") =>
        LastCall.out =
            ReplaceEachOnce(LastCall.arg, dt,
                            <<".000000000", ".000000", "+00:00", "YYYY", "MM", "DD",
                              "hh", "mm", "ss">>)


\* C29: week_day depends only on the absolute instant: the value moved to
\* another offset by set_offset has the week_day the value had.
C29_WeekDayOfInstant ==
    (CalledAfter("set_offset", "week_day") /\ ~PrevCall.out.panic)
        => LastCall.out = week_day(PrevCall.self)

\* The value was moved to an offset where its wall clock shows another day.
C29_Witness ==
    /\ CalledAfter("set_offset", "week_day")
    /\ ~PrevCall.out.panic
    /\ PrevCall.self.offset # dt.offset
    /\ PrevCall.self.day # dt.day
    /\ LastCall.out = week_day(PrevCall.self)


\* The first ten bytes with '-' where the separators stand.
DateDigitsOnly(bytes) ==
    [i \in 1..10 |-> IF i \in {5, 8} THEN Ord["-"] ELSE bytes[i]]

\* C30: Unchecked indexing stays in bounds: every index that
\* Date::parse_bytes_partial and Time::parse_bytes_partial read with
\* get_unchecked is below bytes.len(), for every slice and every offset, a
\* slice too short being answered with TooShort before any read; and a
\* parsed Date depends on the bytes 0-3, 5-6 and 8-9 alone.
C30_UncheckedInBounds ==
    /\ Called("Date::parse_bytes_partial") =>
            LET bytes == LastCall.arg
            IN  /\ \A i \in Date_unchecked(bytes) : i < Len(bytes)
                /\ Len(bytes) < 10 => LastCall.out = ErrE("TooShort")
                /\ Len(bytes) >= 10 =>
                        LastCall.out = Date_parse_bytes_partial(DateDigitsOnly(bytes))
                /\ ~panicked
    /\ Called("Time::parse_bytes_partial") =>
            LET bytes == LastCall.arg[1]
                off == LastCall.arg[2]
            IN  /\ \A i \in Time_unchecked(bytes, off) : i < Len(bytes)
                /\ (off <= Len(bytes) /\ Len(bytes) < off + 5) =>
                        LastCall.out = ErrE("TooShort")
                /\ ~panicked

\* A slice that ends with the minutes: the last unchecked read is of its
\* last byte.  And before it a Date read through other separators.
C30_Witness ==
    /\ Len(calls) = 2
    /\ PrevCall.op = "Date::parse_bytes_partial"
    /\ Len(PrevCall.arg) = 13
    /\ PrevCall.out = Val(MkDate(2024, 2, 29))
    /\ LastCall.op = "Time::parse_bytes_partial"
    /\ Len(LastCall.arg[1]) = 16
    /\ Time_unchecked(LastCall.arg[1], LastCall.arg[2]) = 11..15

====
